---- MODULE Spec2Model ----
(***************************************************************************)
(* The full-screen viewer of TidyPhotos (src/src/frontend/                 *)
(* fullscreen-viewer.ts): the face-tag draw controller (pointer gestures   *)
(* to a committed box) and the tag lifecycle (create / load against the    *)
(* metadata store over asynchronous fetch calls).                          *)
(*                                                                         *)
(* Coordinates are percentage-of-image points.  The photo list is the      *)
(* fixed list getFilteredPhotos() returns; photo i has id i and name i.    *)
(* Every fetch is a message in net: a request the store has not handled    *)
(* yet, or a response the viewer has not handled yet.  Responses of        *)
(* different fetches are handled in any order.                             *)
(*                                                                         *)
(* The Matcher (findBestMatch of src/scripts/face-detection.cjs) is a pure *)
(* function; it is run one loop iteration per step.  Distances and         *)
(* confidences are in hundredths: 100 is the distance 1.                   *)
(*                                                                         *)
(* The descriptor store (parseFaceEncodings, serializeFaceEncodings and    *)
(* addFaceEncoding of FaceDetectionService) keeps one person's encodings   *)
(* as JSON text; texts are JSON values with a flag for their spelling, and *)
(* the numbers of a Float32Array are the even numbers.  The detector       *)
(* (loadModels, detectFaces and main of face-detection.cjs) runs calls of  *)
(* detectFaces on one instance, one await per step.  The create endpoint   *)
(* is driven by an API client that posts coordinates directly.             *)
(*                                                                         *)
(* The photo manager (toggleFavorite of src/frontend/photo-manager.ts)     *)
(* flips a photo's favorite flag before its fetch and reverts it when the  *)
(* fetch fails.  The keyboard handler (handleKeyboard) dispatches a key to *)
(* the viewer operation of its case.                                       *)
(***************************************************************************)
EXTENDS Integers, Sequences, FiniteSets, TLC

(* ------------------------------ bounds --------------------------------- *)

\* Number of photos in the filtered list.
NumPhotos == 2

\* saveFaceTagToDatabase calls in one behaviour of Spec.
MaxCreates == 1

\* Fetches outstanding at one time.
MaxInFlight == 2

\* saveFaceTagToDatabase calls in one behaviour of SpecDraw.
MaxDrawCreates == 1

\* People in the people table.
NumPeople == 2

\* People the editing specification assigns: the first MaxEditPeople of the
\* table.
MaxEditPeople == 1

\* Entries of the roster findBestMatch is called with.
MaxRoster == 2

\* Calls of addFaceEncoding in a behaviour of the descriptor store.
MaxAdds == 12

\* Calls of detectFaces on the one detector instance.
NumCalls == 2

\* Faces a detection finds at most.
MaxFaces == 1

\* Tags an API client creates at most.
MaxPosts == 2

\* Favorite requests of the f key awaiting their fetch at most.
MaxKeyFavorites == 1

(* --------------------------- program constants ------------------------- *)

\* Movement beyond this many points in either axis makes the session a drag.
DragThreshold == 2

\* Minimum size (exclusive) of a box committed by a release.
DragMinSize == 2

\* Minimum size (exclusive) of a box committed by a second click.
ClickMinSize == 1

\* Date.now(): some positive instant.
DateNow == 1

\* slice(-10): the number of encodings addFaceEncoding keeps.
KeepLast == 10

\* this.RECOGNITION_DISTANCE_THRESHOLD = 0.45, in hundredths.
RECOGNITION_DISTANCE_THRESHOLD == 45

\* this.HIGH_CONFIDENCE_THRESHOLD = 0.8, in hundredths.
HIGH_CONFIDENCE_THRESHOLD == 80

\* this.MEDIUM_CONFIDENCE_THRESHOLD = 0.6, in hundredths.
MEDIUM_CONFIDENCE_THRESHOLD == 60

\* The distance 1 and the confidence 1, in hundredths.
One == 100

\* getBoundingClientRect() of the displayed image.
ImgRect == [left |-> 0, top |-> 0, width |-> 100, height |-> 100]

(* ------------------------------ inputs --------------------------------- *)

\* Pointer positions of the gesture specification: a grid whose coordinates are
\* 0, 1, 2 and 3 points apart (around both size thresholds), one far point, and
\* one point of the container that lies beside the image.
DrawCoords == {10, 11, 13}

DrawPoints == (DrawCoords \X DrawCoords) \cup {<<40, 40>>, <<110, 40>>}

\* Pointer positions of the lifecycle specification.
NetPoints == {<<10, 10>>, <<40, 40>>}

\* What a pointer event hits: the image area, or interactive chrome.
Targets == {"image", "button"}

Events(points) ==
    [clientX : {p[1] : p \in points}, clientY : {p[2] : p \in points},
     target : Targets, img : BOOLEAN]

\* Events at the points; the chrome covers points of the diagonal, and one
\* event finds no image in its container.
PointEvents(points) ==
    {e \in Events(points) :
        /\ <<e.clientX, e.clientY>> \in points
        /\ e.target = "button" => e.clientX = e.clientY
        /\ ~e.img => (e.target = "image" /\ \A p \in points : e.clientX <= p[1])}

Statuses == {"ok", "error", "network"}

\* Tag ids removeTag and assignPersonToTag are called with: the ids of the
\* stored tags and one id no tag has.
TagIds == 1..3

\* The people table: person p has id p and name p.
People == [p \in 1..NumPeople |-> [id |-> p, name |-> p]]

\* Descriptors, as vectors of two coordinates in hundredths: distances from
\* the origin of 20, 21, 40, 41, 45, 46, 50, 100 and 150.
Descriptors ==
    {<<0, 0>>, <<12, 16>>, <<0, 21>>, <<24, 32>>, <<0, 41>>, <<27, 36>>, <<0, 46>>,
     <<30, 40>>, <<60, 80>>, <<90, 120>>}

\* The JSON values of the stored texts: a number, an array, null or an
\* object, as records of one shape.
JNum(n) == [t |-> "num", n |-> n, items |-> <<>>]

JArr(items) == [t |-> "arr", n |-> 0, items |-> items]

JNull == [t |-> "null", n |-> 0, items |-> <<>>]

JObj == [t |-> "obj", n |-> 0, items |-> <<>>]

\* A face_encodings text: absent (null), the empty string, text JSON.parse
\* rejects, or the text of a JSON value; canonical says the text is
\* character for character what JSON.stringify prints for its value.
AbsentText == [kind |-> "absent", value |-> JNull, canonical |-> FALSE]

EmptyText == [kind |-> "empty", value |-> JNull, canonical |-> FALSE]

InvalidText == [kind |-> "invalid", value |-> JNull, canonical |-> FALSE]

JsonText(value, canonical) == [kind |-> "json", value |-> value, canonical |-> canonical]

\* The descriptors the k-th call of addFaceEncoding may add: Float32Arrays,
\* so their numbers are on the grid of Fround.
NewDescriptors(k) == {<<2 * k>>, <<2 * k, 2>>}

\* A stored list of n descriptors, as serializeFaceEncodings writes it.
StoredTextOf(n) ==
    JsonText(JArr([k \in 1..n |-> JArr(<<JNum(100 + 2 * k), JNum(4)>>)]), TRUE)

\* The texts a behaviour of the descriptor store may start from: none, the
\* empty string, text that is not JSON; stored lists of 0, 1, 2, 9 and 10
\* descriptors; arrays of arrays of numbers that serializeFaceEncodings did
\* not write (a number off the grid, other spacing); and JSON of another
\* shape (a number, null, an object, an array of numbers).
InitialTexts ==
    {AbsentText, EmptyText, InvalidText}
    \cup {StoredTextOf(n) : n \in {0, 1, 2, KeepLast - 1, KeepLast}}
    \cup {JsonText(JArr(<<JArr(<<JNum(1), JNum(2)>>)>>), TRUE),
          JsonText(JArr(<<JArr(<<JNum(2)>>), JArr(<<JNum(6)>>)>>), FALSE)}
    \cup {JsonText(JNum(3), TRUE), JsonText(JNull, TRUE), JsonText(JObj, TRUE),
          JsonText(JArr(<<JNum(1), JNum(2)>>), TRUE)}

\* The coordinates an API client posts to the create endpoint: two boxes
\* within 0..100 and two with a coordinate outside it.
CreateBodies ==
    {[x |-> 10, y |-> 10, width |-> 30, height |-> 40],
     [x |-> 50, y |-> 50, width |-> 20, height |-> 20],
     [x |-> -10, y |-> 150, width |-> 30, height |-> 40],
     [x |-> 10, y |-> 10, width |-> 101, height |-> 40]}

\* Person ids of roster entries.
RosterPersonIds == {1, 2}

(* ------------------------------- state --------------------------------- *)

VARIABLES
    fullScreenMode,       \* this.fullScreenMode
    currentPhotoIndex,    \* this.currentPhotoIndex (0-based)
    taggingMode,          \* this.taggingMode
    currentFaceTags,      \* this.currentFaceTags: the working list
    isDrawingTag,         \* this.isDrawingTag
    drawStartPos,         \* this.drawStartPos: <<>> is null, else <<rect>>
    originalStartPos,     \* this.originalStartPos: <<>> is null, else <<point>>
    isDragging,           \* this.isDragging
    clickStartTime,       \* this.clickStartTime
    dbTags,               \* the store's face_tags rows, in insertion order
    nextTagId,            \* the store's next row id
    net,                  \* fetches in flight, in the order they were issued
    saveCalls,            \* boxes passed to saveFaceTagToDatabase so far
    awaitingSecondClick,  \* the session took the "waiting for second click" branch
    anchorPhoto,          \* get currentPhoto() when the session was anchored
    lastOp,               \* the viewer operation that ran last, and its input
    faceDescriptor,       \* findBestMatch: the candidate
    knownDescriptors,     \* findBestMatch: the roster
    bestMatch,            \* findBestMatch: let bestMatch
    matchIndex,           \* findBestMatch: roster entries the loop has handled
    matchDone,            \* findBestMatch has returned bestMatch
    matchOutput,          \* matchFaces: the match it reports; <<>> before the return
    encodingsText,        \* the face_encodings text of one person
    initialText,          \* the text before the first addFaceEncoding
    added,                \* the descriptors passed to addFaceEncoding so far
    modelsLoaded,         \* this.modelsLoaded
    modelAssets,          \* the model files can be read from this.modelPath
    calls,                \* detectFaces calls: where each one is
    loads,                \* completed runs of the three loadFromDisk calls
    favorite,             \* PhotoManager.photos: photo.favorite, by photo id
    favoriteCalls,        \* toggleFavorite calls awaiting their fetch
    favoriteOp            \* the PhotoManager operation that ran last

viewVars == <<fullScreenMode, currentPhotoIndex>>

drawVars ==
    <<isDrawingTag, drawStartPos, originalStartPos, isDragging, awaitingSecondClick,
      anchorPhoto>>

storeVars == <<dbTags, nextTagId>>

matchVars ==
    <<faceDescriptor, knownDescriptors, bestMatch, matchIndex, matchDone, matchOutput>>

encodingVars == <<encodingsText, initialText, added>>

detectVars == <<modelsLoaded, modelAssets, calls, loads>>

favoriteVars == <<favorite, favoriteCalls, favoriteOp>>

serviceVars == <<matchVars, encodingVars, detectVars, favoriteVars>>

vars ==
    <<fullScreenMode, currentPhotoIndex, taggingMode, currentFaceTags,
      isDrawingTag, drawStartPos, originalStartPos, isDragging, clickStartTime,
      dbTags, nextTagId, net, saveCalls, awaitingSecondClick, anchorPhoto, lastOp,
      faceDescriptor, knownDescriptors, bestMatch, matchIndex, matchDone,
      matchOutput, encodingsText, initialText, added, modelsLoaded, modelAssets,
      calls, loads, favorite, favoriteCalls, favoriteOp>>

(* ------------------------------ helpers -------------------------------- *)

Min(a, b) == IF a < b THEN a ELSE b

Max(a, b) == IF a < b THEN b ELSE a

Abs(a) == IF a < 0 THEN -a ELSE a

RemoveAt(s, i) == [j \in 1..(Len(s) - 1) |-> IF j < i THEN s[j] ELSE s[j + 1]]

ReplaceAt(s, i, e) == [s EXCEPT ![i] = e]

\* getFilteredPhotos()
FilteredPhotos == [i \in 1..NumPhotos |-> [id |-> i, name |-> i]]

\* get currentPhoto(), for given values of the two fields it reads.
CurrentPhotoOf(fs, idx) ==
    IF ~fs \/ Len(FilteredPhotos) = 0 THEN <<>> ELSE <<FilteredPhotos[idx + 1]>>

CurrentPhoto == CurrentPhotoOf(fullScreenMode, currentPhotoIndex)

\* The state of the Draw Controller's session.
SessionState ==
    IF ~isDrawingTag THEN "Idle"
    ELSE IF awaitingSecondClick THEN "AwaitingSecondClick"
    ELSE IF isDragging THEN "Dragging"
    ELSE "Anchored"

NoEvent == [clientX |-> 0, clientY |-> 0, target |-> "image", img |-> TRUE]

NoBox == [x |-> 0, y |-> 0, width |-> 0, height |-> 0]

\* What saveFaceTagToDatabase resolves to when the create did not succeed.
NullTag == [id |-> 0, photo |-> 0, x |-> 0, y |-> 0, width |-> 0, height |-> 0,
            personId |-> 0, personName |-> 0]

\* convertEventToCoordinates: <<>> is null.
ConvertEventToCoordinates(ev) ==
    IF ~ev.img THEN <<>>
    ELSE <<[x |-> ((ev.clientX - ImgRect.left) * 100) \div ImgRect.width,
            y |-> ((ev.clientY - ImgRect.top) * 100) \div ImgRect.height]>>

(* ------------------------------- Init ---------------------------------- *)

\* Two tags stored for photo 1 before the viewer is constructed; personId 0 is
\* null and personName 0 is the empty name.
InitialTags ==
    <<[id |-> 1, photo |-> 1, x |-> 20, y |-> 20, width |-> 25, height |-> 25,
       personId |-> 0, personName |-> 0],
      [id |-> 2, photo |-> 1, x |-> 60, y |-> 20, width |-> 25, height |-> 25,
       personId |-> 0, personName |-> 0]>>

\* The result findBestMatch starts from, and returns for an empty roster; a
\* personId of 0 is an absent personId.
NoMatch == [personId |-> 0, confidence |-> 0, distance |-> One, isMatch |-> FALSE]

\* No call of findBestMatch is under way.
MatcherIdle ==
    /\ faceDescriptor = <<0, 0>>
    /\ knownDescriptors = <<>>
    /\ bestMatch = NoMatch
    /\ matchIndex = 0
    /\ matchDone = FALSE
    /\ matchOutput = <<>>

\* No addFaceEncoding has been called; the person has no encodings.
EncodingsIdle ==
    /\ encodingsText = AbsentText
    /\ initialText = AbsentText
    /\ added = <<>>

\* The detector after construction, with no call of detectFaces.
DetectorIdle ==
    /\ modelsLoaded = FALSE
    /\ modelAssets = TRUE
    /\ calls = [c \in 1..NumCalls |-> [stage |-> "idle", nets |-> 0, faces |-> 0]]
    /\ loads = 0

\* The photos as loadPhotos left them, none a favorite, and no call of
\* toggleFavorite.
FavoritesIdle ==
    /\ favorite = [p \in 1..NumPhotos |-> FALSE]
    /\ favoriteCalls = <<>>
    /\ favoriteOp = [op |-> "loadPhotos", photoId |-> 0, status |-> "none"]

\* The Matcher, the descriptor store, the detector and the photo manager at
\* rest.
ServiceIdle == MatcherIdle /\ EncodingsIdle /\ DetectorIdle /\ FavoritesIdle

\* The viewer and the store after construction.
ViewerInit ==
    /\ fullScreenMode = FALSE
    /\ currentPhotoIndex = 0
    /\ taggingMode = FALSE
    /\ currentFaceTags = <<>>
    /\ isDrawingTag = FALSE
    /\ drawStartPos = <<>>
    /\ originalStartPos = <<>>
    /\ isDragging = FALSE
    /\ clickStartTime = 0
    /\ dbTags = InitialTags
    /\ nextTagId = Len(InitialTags) + 1
    /\ net = <<>>
    /\ saveCalls = <<>>
    /\ awaitingSecondClick = FALSE
    /\ anchorPhoto = <<>>
    /\ lastOp = [op |-> "constructor", ev |-> NoEvent, from |-> "Idle",
                 anchor |-> <<>>]

Init == ViewerInit /\ ServiceIdle

(* ------------------------- Tag Draw Controller ------------------------- *)

\* A reset that leaves the anchor behind.
ResetDrawingStateKeepsAnchor ==
    /\ isDrawingTag' = FALSE
    /\ drawStartPos' = <<>>
    /\ UNCHANGED originalStartPos
    /\ isDragging' = FALSE
    /\ awaitingSecondClick' = FALSE
    /\ anchorPhoto' = <<>>

\* The five assignments that return the Draw Controller to Idle.
ResetDrawingState ==
    /\ isDrawingTag' = FALSE
    /\ drawStartPos' = <<>>
    /\ originalStartPos' = <<>>
    /\ isDragging' = FALSE
    /\ awaitingSecondClick' = FALSE
    /\ anchorPhoto' = <<>>

\* A toggle that leaves tagging mode with the session still in place.
ToggleTaggingModeKeepsSession ==
    /\ taggingMode' = ~taggingMode
    /\ UNCHANGED <<drawVars, clickStartTime>>
    /\ UNCHANGED <<viewVars, currentFaceTags, storeVars, net, saveCalls>>

\* toggleTaggingMode()
ToggleTaggingMode ==
    /\ taggingMode' = ~taggingMode
    /\ IF ~taggingMode'
       THEN ResetDrawingState /\ clickStartTime' = 0
       ELSE UNCHANGED <<drawVars, clickStartTime>>
    /\ UNCHANGED <<viewVars, currentFaceTags, storeVars, net, saveCalls>>

\* The create request saveFaceTagToDatabase sends for a box.
CreateRequest(photo, box) ==
    [kind |-> "create", photo |-> photo.name, stage |-> "request",
     status |-> "none", box |-> box, tags |-> <<>>,
     tagId |-> 0, personId |-> 0, personName |-> 0, live |-> FALSE]

\* saveFaceTagToDatabase(tag), up to its first await: without a current photo
\* it resolves to null and sends nothing.
SaveFaceTagToDatabase(box) ==
    /\ saveCalls' = Append(saveCalls, box)
    /\ net' = IF CurrentPhoto = <<>>
              THEN net
              ELSE Append(net, CreateRequest(CurrentPhoto[1], box))

\* A box that starts at the anchor and extends to the point, whatever the
\* direction.
TagBoxDirected(anchor, x, y) ==
    [x |-> anchor.x, y |-> anchor.y, width |-> x - anchor.x, height |-> y - anchor.y]

\* const tag = {...}: the box spanned by the anchor and the point (x, y).
TagBox(anchor, x, y) ==
    [x |-> Min(anchor.x, x), y |-> Min(anchor.y, y),
     width |-> Abs(x - anchor.x), height |-> Abs(y - anchor.y)]

\* One minimum for both gestures: the click-click one.
MinSizeAlwaysClick(isFromClickClick) == ClickMinSize

\* One minimum for both gestures: the drag one.
MinSizeAlwaysDrag(isFromClickClick) == DragMinSize

\* const minSize = isFromClickClick ? 1 : 2
MinSize(isFromClickClick) ==
    IF isFromClickClick THEN ClickMinSize ELSE DragMinSize

\* A size test that looks at the width only.
LargeEnoughWidthOnly(box, minSize) == box.width > minSize

\* A size test that lets a box of exactly the minimum pass.
LargeEnoughInclusive(box, minSize) == box.width >= minSize /\ box.height >= minSize

\* tag.width > minSize && tag.height > minSize
LargeEnough(box, minSize) == box.width > minSize /\ box.height > minSize

\* const shouldCreateTag = isFromClickClick || this.isDragging
ShouldCreateTag(isFromClickClick, dragging) == isFromClickClick \/ dragging

\* A finish that leaves the session of a too small box in place.
FinishWithKeepsTooSmall(x, y, isFromClickClick, dragging) ==
    LET box == TagBox(originalStartPos[1], x, y) IN
    IF ShouldCreateTag(isFromClickClick, dragging)
    THEN IF LargeEnough(box, MinSize(isFromClickClick))
         THEN /\ SaveFaceTagToDatabase(box)
              /\ ResetDrawingState
         ELSE /\ isDragging' = dragging
              /\ UNCHANGED <<isDrawingTag, drawStartPos, originalStartPos,
                             awaitingSecondClick, anchorPhoto>>
              /\ UNCHANGED <<net, saveCalls>>
    ELSE /\ awaitingSecondClick' = TRUE
         /\ isDragging' = dragging
         /\ UNCHANGED <<isDrawingTag, drawStartPos, originalStartPos, anchorPhoto,
                        net, saveCalls>>

\* finishDrawingTag from the point where x, actualY and isFromClickClick are
\* known.  dragging is this.isDragging as the body reads it: startDrawingTag
\* clears the field before it calls finishDrawingTag.
FinishWith(x, y, isFromClickClick, dragging) ==
    LET box == TagBox(originalStartPos[1], x, y) IN
    IF ShouldCreateTag(isFromClickClick, dragging)
    THEN IF LargeEnough(box, MinSize(isFromClickClick))
         THEN /\ SaveFaceTagToDatabase(box)
              /\ ResetDrawingState
         ELSE /\ IF dragging \/ isFromClickClick
                 THEN ResetDrawingState
                 ELSE /\ isDragging' = dragging
                      /\ UNCHANGED <<isDrawingTag, drawStartPos, originalStartPos,
                                     awaitingSecondClick, anchorPhoto>>
              /\ UNCHANGED <<net, saveCalls>>
    ELSE \* mouseup without enough drag: wait for the second click
         /\ awaitingSecondClick' = TRUE
         /\ isDragging' = dragging
         /\ UNCHANGED <<isDrawingTag, drawStartPos, originalStartPos, anchorPhoto,
                        net, saveCalls>>

\* The guard all three pointer handlers of a running session share.
NoSession == ~isDrawingTag \/ drawStartPos = <<>> \/ originalStartPos = <<>>

\* finishDrawingTag(x, y): the call startDrawingTag makes on the second click.
FinishDrawingTagXY(x, y, dragging) ==
    IF NoSession
    THEN /\ isDragging' = dragging
         /\ UNCHANGED <<isDrawingTag, drawStartPos, originalStartPos,
                        awaitingSecondClick, anchorPhoto, net, saveCalls>>
    ELSE FinishWith(x, y, TRUE, dragging)

\* startDrawingTag(event): the mousedown handler.
StartDrawingTag(ev) ==
    LET coordinates == ConvertEventToCoordinates(ev) IN
    /\ UNCHANGED <<viewVars, taggingMode, currentFaceTags, storeVars>>
    /\ IF ~taggingMode \/ ev.target = "button" \/ coordinates = <<>>
       THEN UNCHANGED <<drawVars, clickStartTime, net, saveCalls>>
       ELSE /\ clickStartTime' = DateNow
            /\ IF ~isDrawingTag
               THEN /\ isDrawingTag' = TRUE
                    /\ originalStartPos' = coordinates
                    /\ drawStartPos' = <<[x |-> coordinates[1].x, y |-> coordinates[1].y,
                                          width |-> 0, height |-> 0]>>
                    /\ isDragging' = FALSE
                    /\ anchorPhoto' = CurrentPhoto
                    /\ UNCHANGED <<awaitingSecondClick, net, saveCalls>>
               ELSE FinishDrawingTagXY(coordinates[1].x, coordinates[1].y, FALSE)

\* The preview rectangle updateDrawingTag computes from minX, minY, maxX, maxY.
PreviewBox(anchor, x, y) ==
    [x |-> Min(anchor.x, x), y |-> Min(anchor.y, y),
     width |-> Max(anchor.x, x) - Min(anchor.x, x),
     height |-> Max(anchor.y, y) - Min(anchor.y, y)]

\* this.isDragging after the movement test of updateDrawingTag.
DragDetected(anchor, x, y, dragging) ==
    dragging \/ Abs(x - anchor.x) > DragThreshold \/ Abs(y - anchor.y) > DragThreshold

\* updateDrawingTag(event): the mousemove handler.
UpdateDrawingTag(ev) ==
    LET coordinates == ConvertEventToCoordinates(ev) IN
    /\ UNCHANGED <<viewVars, taggingMode, currentFaceTags, storeVars, clickStartTime,
                   net, saveCalls, isDrawingTag, originalStartPos, awaitingSecondClick,
                   anchorPhoto>>
    /\ IF NoSession \/ coordinates = <<>>
       THEN UNCHANGED <<drawStartPos, isDragging>>
       ELSE LET anchor == originalStartPos[1]
                x == coordinates[1].x
                y == coordinates[1].y
            IN /\ isDragging' = DragDetected(anchor, x, y, isDragging)
               /\ drawStartPos' = IF isDragging'
                                  THEN <<PreviewBox(anchor, x, y)>>
                                  ELSE drawStartPos

\* finishDrawingTag(event): the mouseup handler.
FinishDrawingTag(ev) ==
    LET coordinates == ConvertEventToCoordinates(ev) IN
    /\ UNCHANGED <<viewVars, taggingMode, currentFaceTags, storeVars, clickStartTime>>
    /\ IF NoSession \/ coordinates = <<>>
       THEN UNCHANGED <<drawVars, net, saveCalls>>
       ELSE FinishWith(coordinates[1].x, coordinates[1].y, FALSE, isDragging)

\* saveFaceTags(): leaves tagging mode.
SaveFaceTags ==
    /\ taggingMode' = FALSE
    /\ ResetDrawingState
    /\ clickStartTime' = 0
    /\ UNCHANGED <<viewVars, currentFaceTags, storeVars, net, saveCalls>>

(* ----------------------- Tag Lifecycle Coordinator --------------------- *)

\* The fetches in flight once the working list holds new tag objects: no
\* pending assignment refers to an object of the list any more.
Detach(n) == [k \in DOMAIN n |-> [n[k] EXCEPT !.live = FALSE]]

\* The load request loadFaceTagsForCurrentPhoto sends for a photo.
LoadRequest(photo) ==
    [kind |-> "load", photo |-> photo.name, stage |-> "request",
     status |-> "none", box |-> NoBox, tags |-> <<>>,
     tagId |-> 0, personId |-> 0, personName |-> 0, live |-> FALSE]

\* A load that keeps tagging mode and the session across the photo change.
LoadFaceTagsKeepsSession ==
    LET photo == CurrentPhotoOf(fullScreenMode', currentPhotoIndex') IN
    /\ UNCHANGED <<taggingMode, drawVars, clickStartTime>>
    /\ IF photo # <<>>
       THEN /\ net' = Append(net, LoadRequest(photo[1]))
            /\ UNCHANGED currentFaceTags
       ELSE /\ currentFaceTags' = <<>>
            /\ UNCHANGED net

\* loadFaceTagsForCurrentPhoto(), up to its first await, once the caller has
\* set fullScreenMode and currentPhotoIndex: the draw state is reset, and the
\* working list is emptied at once only when there is no current photo.
LoadFaceTagsForCurrentPhoto ==
    LET photo == CurrentPhotoOf(fullScreenMode', currentPhotoIndex') IN
    /\ taggingMode' = FALSE
    /\ ResetDrawingState
    /\ clickStartTime' = 0
    /\ IF photo # <<>>
       THEN /\ net' = Append(net, LoadRequest(photo[1]))
            /\ UNCHANGED currentFaceTags
       ELSE /\ currentFaceTags' = <<>>
            /\ net' = Detach(net)

\* openFullScreen(photoId), for a photo of the list.
OpenFullScreen(photoId) ==
    /\ \E i \in 1..Len(FilteredPhotos) :
          /\ FilteredPhotos[i].id = photoId
          /\ currentPhotoIndex' = i - 1
    /\ fullScreenMode' = TRUE
    /\ LoadFaceTagsForCurrentPhoto
    /\ UNCHANGED <<storeVars, saveCalls>>

\* closeFullScreen()
CloseFullScreen ==
    /\ fullScreenMode' = FALSE
    /\ UNCHANGED <<currentPhotoIndex, taggingMode, currentFaceTags, drawVars,
                   clickStartTime, storeVars, net, saveCalls>>

\* A nextPhoto that wraps from the last photo to the first.
NextPhotoWraps ==
    /\ UNCHANGED <<fullScreenMode, storeVars, saveCalls>>
    /\ currentPhotoIndex' = IF currentPhotoIndex < Len(FilteredPhotos) - 1
                            THEN currentPhotoIndex + 1 ELSE 0
    /\ LoadFaceTagsForCurrentPhoto

\* nextPhoto()
NextPhoto ==
    /\ UNCHANGED <<fullScreenMode, storeVars, saveCalls>>
    /\ IF currentPhotoIndex < Len(FilteredPhotos) - 1
       THEN /\ currentPhotoIndex' = currentPhotoIndex + 1
            /\ LoadFaceTagsForCurrentPhoto
       ELSE UNCHANGED <<currentPhotoIndex, taggingMode, currentFaceTags, drawVars,
                        clickStartTime, net>>

\* previousPhoto()
PreviousPhoto ==
    /\ UNCHANGED <<fullScreenMode, storeVars, saveCalls>>
    /\ IF currentPhotoIndex > 0
       THEN /\ currentPhotoIndex' = currentPhotoIndex - 1
            /\ LoadFaceTagsForCurrentPhoto
       ELSE UNCHANGED <<currentPhotoIndex, taggingMode, currentFaceTags, drawVars,
                        clickStartTime, net>>

\* A callback that adds whatever the create resolved to.
TruthyAlways(savedTag) == TRUE

\* if (savedTag): a tag object is truthy, null is not.
Truthy(savedTag) == savedTag # NullTag

\* The value saveFaceTagToDatabase resolves to for a response.
SavedTag(m) == IF m.status = "ok" THEN m.tags[1] ELSE NullTag

\* The .then callback of finishDrawingTag, run when the create settles.
CreateSettled(m) ==
    currentFaceTags' = IF Truthy(SavedTag(m))
                       THEN Append(currentFaceTags, SavedTag(m))
                       ELSE currentFaceTags

\* A load that keeps the list it found when the request failed.
LoadSettledKeepsOnError(m) ==
    currentFaceTags' = IF m.status = "ok" THEN m.tags ELSE currentFaceTags

\* loadFaceTagsForCurrentPhoto() after its await: the working list is replaced
\* by the response's tags, or emptied when the load failed.
LoadSettled(m) ==
    currentFaceTags' = IF m.status = "ok" THEN m.tags ELSE <<>>

\* this.currentFaceTags.find(t => t.id === tagId): the index of the first tag
\* with the id, 0 when there is none.
FindTag(tagId) ==
    IF \E k \in DOMAIN currentFaceTags : currentFaceTags[k].id = tagId
    THEN CHOOSE k \in DOMAIN currentFaceTags :
            /\ currentFaceTags[k].id = tagId
            /\ \A j \in 1..(k - 1) : currentFaceTags[j].id # tagId
    ELSE 0

\* The delete request removeTag sends.
DeleteRequest(tagId) ==
    [kind |-> "delete", photo |-> 0, stage |-> "request",
     status |-> "none", box |-> NoBox, tags |-> <<>>,
     tagId |-> tagId, personId |-> 0, personName |-> 0, live |-> FALSE]

\* The update request assignPersonToTag sends for the tag object it found.
\* live: the object is still the one the working list holds.
UpdateRequest(tag, personId, personName) ==
    [kind |-> "update", photo |-> 0, stage |-> "request", status |-> "none",
     box |-> [x |-> tag.x, y |-> tag.y, width |-> tag.width, height |-> tag.height],
     tags |-> <<>>,
     tagId |-> tag.id, personId |-> personId, personName |-> personName, live |-> TRUE]

\* A removeTag that sends its request without looking the tag up.
RemoveTagUnchecked(tagId) ==
    /\ net' = Append(net, DeleteRequest(tagId))
    /\ UNCHANGED <<viewVars, taggingMode, currentFaceTags, drawVars, clickStartTime,
                   storeVars, saveCalls>>

\* removeTag(tagId), up to its await.
RemoveTag(tagId) ==
    /\ net' = IF FindTag(tagId) = 0 THEN net ELSE Append(net, DeleteRequest(tagId))
    /\ UNCHANGED <<viewVars, taggingMode, currentFaceTags, drawVars, clickStartTime,
                   storeVars, saveCalls>>

\* assignPersonToTag(tagId, personId, personName), up to its await.
AssignPersonToTag(tagId, personId, personName) ==
    /\ net' = IF FindTag(tagId) = 0
              THEN net
              ELSE Append(net, UpdateRequest(currentFaceTags[FindTag(tagId)],
                                             personId, personName))
    /\ UNCHANGED <<viewVars, taggingMode, currentFaceTags, drawVars, clickStartTime,
                   storeVars, saveCalls>>

\* A removal that is applied whatever the response says.
RemoveSettledAlways(m) ==
    currentFaceTags' = SelectSeq(currentFaceTags, LAMBDA t : t.id # m.tagId)

\* removeTag after its await: the tags with the id are filtered out when the
\* response is ok.
RemoveSettled(m) ==
    currentFaceTags' = IF m.status = "ok"
                       THEN SelectSeq(currentFaceTags, LAMBDA t : t.id # m.tagId)
                       ELSE currentFaceTags

\* The working list after tag.personId and tag.personName are assigned on the
\* tag object found before the await: visible only while the list still holds
\* that object.
Assigned(m) ==
    IF m.live /\ FindTag(m.tagId) # 0
    THEN [currentFaceTags EXCEPT ![FindTag(m.tagId)] =
             [@ EXCEPT !.personId = m.personId, !.personName = m.personName]]
    ELSE currentFaceTags

\* An assignment that is applied whatever the response says.
AssignSettledAlways(m) == currentFaceTags' = Assigned(m)

\* assignPersonToTag after its await.
AssignSettled(m) ==
    currentFaceTags' = IF m.status = "ok" THEN Assigned(m) ELSE currentFaceTags

\* The viewer handles the response of fetch i.
Deliver(i) ==
    /\ i \in DOMAIN net
    /\ net[i].stage = "response"
    /\ net' = IF net[i].kind = "load" THEN Detach(RemoveAt(net, i)) ELSE RemoveAt(net, i)
    /\ CASE net[i].kind = "create" -> CreateSettled(net[i])
         [] net[i].kind = "load" -> LoadSettled(net[i])
         [] net[i].kind = "delete" -> RemoveSettled(net[i])
         [] net[i].kind = "update" -> AssignSettled(net[i])
    /\ UNCHANGED <<viewVars, taggingMode, drawVars, clickStartTime, storeVars, saveCalls>>

(* --------------------------- Metadata store ---------------------------- *)

\* getFaceTagsForPhoto(filename): the rows of the photo, in insertion order.
TagsForPhoto(name) == SelectSeq(dbTags, LAMBDA t : t.photo = name)

\* The row insertFaceTag adds for a create request.
NewTag(m) ==
    [id |-> nextTagId, photo |-> m.photo, x |-> m.box.x, y |-> m.box.y,
     width |-> m.box.width, height |-> m.box.height, personId |-> 0,
     personName |-> 0]

\* getPerson(pid).name as getFaceTagsHandler looks it up; 0 is the empty name.
PersonName(pid) ==
    IF pid \in DOMAIN People THEN People[pid].name ELSE 0

\* The rows after deleteTag(tagId) or updateTag(tagId, box, identityId,
\* confidence); a request of another kind leaves them as they are.
StoreApply(m) ==
    CASE m.kind = "delete" -> SelectSeq(dbTags, LAMBDA t : t.id # m.tagId)
      [] m.kind = "update" ->
            [k \in DOMAIN dbTags |->
                IF dbTags[k].id = m.tagId
                THEN [dbTags[k] EXCEPT !.x = m.box.x, !.y = m.box.y,
                                       !.width = m.box.width, !.height = m.box.height,
                                       !.personId = m.personId,
                                       !.personName = PersonName(m.personId)]
                ELSE dbTags[k]]
      [] OTHER -> dbTags

\* The store handles request i (getFaceTagsHandler, createFaceTagHandler,
\* updateFaceTagHandler, deleteFaceTagHandler) and
\* answers with a success or an error status, or the fetch fails in the network
\* before the store sees it.
ServerHandle(i, status) ==
    /\ i \in DOMAIN net
    /\ net[i].stage = "request"
    /\ IF status = "ok" /\ net[i].kind = "create"
       THEN /\ dbTags' = Append(dbTags, NewTag(net[i]))
            /\ nextTagId' = nextTagId + 1
            /\ net' = ReplaceAt(net, i, [net[i] EXCEPT !.stage = "response",
                                          !.status = status,
                                          !.tags = <<NewTag(net[i])>>])
       ELSE /\ dbTags' = IF status = "ok" THEN StoreApply(net[i]) ELSE dbTags
            /\ UNCHANGED nextTagId
            /\ net' = ReplaceAt(net, i, [net[i] EXCEPT !.stage = "response",
                                          !.status = status,
                                          !.tags = IF status = "ok"
                                                   THEN TagsForPhoto(net[i].photo)
                                                   ELSE <<>>])
    /\ UNCHANGED <<viewVars, taggingMode, currentFaceTags, drawVars, clickStartTime,
                   saveCalls>>

\* An API client posts the coordinates of a new tag of the photo to the
\* create endpoint.
PostFaceTag(photo, box) ==
    /\ net' = Append(net, CreateRequest(photo, box))
    /\ UNCHANGED <<viewVars, taggingMode, currentFaceTags, drawVars, clickStartTime,
                   storeVars, saveCalls>>

\* The API client reads the response to its request i.
ResponseRead(i) ==
    /\ i \in DOMAIN net
    /\ net[i].stage = "response"
    /\ net' = RemoveAt(net, i)
    /\ UNCHANGED <<viewVars, taggingMode, currentFaceTags, drawVars, clickStartTime,
                   storeVars, saveCalls>>

(* ------------------------------- Matcher ------------------------------- *)

\* The integer square root.
ISqrt(n) == CHOOSE r \in 0..n : r * r <= n /\ (r + 1) * (r + 1) > n

\* The squared distance of two descriptors, in ten-thousandths.
SquaredDistance(a, b) ==
    (a[1] - b[1]) * (a[1] - b[1]) + (a[2] - b[2]) * (a[2] - b[2])

\* faceapi.euclideanDistance(a, b), in hundredths; exact where the squared
\* distance is a square.
EuclideanDistance(a, b) == ISqrt(SquaredDistance(a, b))

\* The distance of the two descriptors is a whole number of hundredths.
ExactDistance(a, b) ==
    EuclideanDistance(a, b) * EuclideanDistance(a, b) = SquaredDistance(a, b)

\* Math.max(0, 1 - distance)
Confidence(distance) == Max(0, One - distance)

\* A match test that excludes the threshold itself.
IsMatchBelow(distance) == distance < RECOGNITION_DISTANCE_THRESHOLD

\* distance <= this.RECOGNITION_DISTANCE_THRESHOLD
IsMatch(distance) == distance <= RECOGNITION_DISTANCE_THRESHOLD

\* A loop body that keeps the confidence of the result it replaces.
MatchStepStaleConfidence(best, known, candidate) ==
    LET distance == EuclideanDistance(candidate, known.descriptor) IN
    IF distance < best.distance
    THEN [personId |-> known.personId, confidence |-> best.confidence,
          distance |-> distance, isMatch |-> IsMatch(distance)]
    ELSE best

\* One iteration of the loop of findBestMatch: the entry replaces bestMatch
\* when its distance is below the distance of bestMatch.
MatchStep(best, known, candidate) ==
    LET distance == EuclideanDistance(candidate, known.descriptor) IN
    IF distance < best.distance
    THEN [personId |-> known.personId, confidence |-> Confidence(distance),
          distance |-> distance, isMatch |-> IsMatch(distance)]
    ELSE best

\* A tier test that puts the boundary 0.8 itself in the tier below.
GetConfidenceLevelAbove(confidence) ==
    IF confidence > HIGH_CONFIDENCE_THRESHOLD THEN "high"
    ELSE IF confidence >= MEDIUM_CONFIDENCE_THRESHOLD THEN "medium"
    ELSE "low"

\* getConfidenceLevel(confidence)
GetConfidenceLevel(confidence) ==
    IF confidence >= HIGH_CONFIDENCE_THRESHOLD THEN "high"
    ELSE IF confidence >= MEDIUM_CONFIDENCE_THRESHOLD THEN "medium"
    ELSE "low"

\* shouldAutoConfirm(confidence)
ShouldAutoConfirm(confidence) == confidence >= HIGH_CONFIDENCE_THRESHOLD

\* A suggestion test with the threshold at 0.5.
ShouldSuggestFromHalf(confidence) == 2 * confidence >= One

\* shouldSuggest(confidence)
ShouldSuggest(confidence) == confidence >= MEDIUM_CONFIDENCE_THRESHOLD

\* The match object matchFaces reports for the result of findBestMatch.
MatchReport(match) ==
    [personId |-> match.personId,
     confidence |-> match.confidence,
     distance |-> match.distance,
     isMatch |-> match.isMatch,
     confidenceLevel |-> GetConfidenceLevel(match.confidence),
     shouldAutoConfirm |-> ShouldAutoConfirm(match.confidence),
     shouldSuggest |-> ShouldSuggest(match.confidence)]

\* An early return that reports a perfect match for an empty roster.
FindBestMatchEmptyPerfect ==
    /\ ~matchDone
    /\ Len(knownDescriptors) = 0
    /\ bestMatch' = [NoMatch EXCEPT !.distance = 0, !.confidence = One]
    /\ matchDone' = TRUE
    /\ matchOutput' = <<MatchReport(bestMatch')>>
    /\ UNCHANGED <<faceDescriptor, knownDescriptors, matchIndex>>

\* findBestMatch for an empty roster: the early return, and the report
\* matchFaces builds of it.
FindBestMatchEmpty ==
    /\ ~matchDone
    /\ Len(knownDescriptors) = 0
    /\ bestMatch' = NoMatch
    /\ matchDone' = TRUE
    /\ matchOutput' = <<MatchReport(bestMatch')>>
    /\ UNCHANGED <<faceDescriptor, knownDescriptors, matchIndex>>

\* findBestMatch: the loop handles the next roster entry.
FindBestMatchIteration ==
    /\ ~matchDone
    /\ matchIndex < Len(knownDescriptors)
    /\ bestMatch' = MatchStep(bestMatch, knownDescriptors[matchIndex + 1], faceDescriptor)
    /\ matchIndex' = matchIndex + 1
    /\ UNCHANGED <<faceDescriptor, knownDescriptors, matchDone, matchOutput>>

\* findBestMatch: return bestMatch after the loop, and the report matchFaces
\* builds of it.
FindBestMatchReturn ==
    /\ ~matchDone
    /\ Len(knownDescriptors) > 0
    /\ matchIndex = Len(knownDescriptors)
    /\ matchDone' = TRUE
    /\ matchOutput' = <<MatchReport(bestMatch)>>
    /\ UNCHANGED <<faceDescriptor, knownDescriptors, bestMatch, matchIndex>>

(* -------------------------- Descriptor store --------------------------- *)

\* Math.fround: the numbers a Float32Array holds form a coarser grid than the
\* numbers of a JSON text.  Here the grid is the even numbers, and an odd
\* number is rounded to the even number above it.
Fround(x) == IF x % 2 = 0 THEN x ELSE x + 1

\* new Float32Array(v): of an array of numbers, the rounded numbers; of a
\* number n, n zeros; of null or an object, no element.
Float32Array(v) ==
    CASE v.t = "arr" -> [j \in DOMAIN v.items |-> Fround(v.items[j].n)]
      [] v.t = "num" -> [j \in 1..v.n |-> 0]
      [] OTHER -> <<>>

\* A parse that returns the descriptors in reverse order.
ParseFaceEncodingsReversed(encodingsJson) ==
    IF encodingsJson.kind # "json" THEN <<>>
    ELSE IF encodingsJson.value.t = "arr"
    THEN [k \in DOMAIN encodingsJson.value.items |->
            Float32Array(encodingsJson.value.items[
                Len(encodingsJson.value.items) + 1 - k])]
    ELSE <<Float32Array(encodingsJson.value)>>

\* parseFaceEncodings(encodingsJson): JSON.parse throws on text that is not
\* JSON and the catch returns []; an array is mapped element by element,
\* any other value gives one descriptor.
ParseFaceEncodings(encodingsJson) ==
    IF encodingsJson.kind # "json" THEN <<>>
    ELSE IF encodingsJson.value.t = "arr"
    THEN [k \in DOMAIN encodingsJson.value.items |->
            Float32Array(encodingsJson.value.items[k])]
    ELSE <<Float32Array(encodingsJson.value)>>

\* serializeFaceEncodings(descriptors): JSON.stringify of the arrays of
\* numbers.
SerializeFaceEncodings(descriptors) ==
    JsonText(JArr([k \in DOMAIN descriptors |->
                     JArr([j \in DOMAIN descriptors[k] |-> JNum(descriptors[k][j])])]),
             TRUE)

\* A truncation that keeps the oldest encodings.
LimitedOldest(existing) == SubSeq(existing, 1, Min(Len(existing), KeepLast))

\* existing.slice(-10)
Limited(existing) ==
    SubSeq(existing, Len(existing) - Min(Len(existing), KeepLast) + 1, Len(existing))

\* The text addFaceEncoding(existingEncodingsJson, newDescriptor) returns; an
\* absent or empty text is falsy and is not parsed.
AddFaceEncodingText(existingEncodingsJson, newDescriptor) ==
    LET existing == IF existingEncodingsJson.kind \in {"absent", "empty"}
                    THEN <<>>
                    ELSE ParseFaceEncodings(existingEncodingsJson)
    IN  SerializeFaceEncodings(Limited(Append(existing, newDescriptor)))

\* addFaceEncoding is called with the stored text and a new descriptor, and
\* the text it returns is stored.
AddFaceEncoding(newDescriptor) ==
    /\ Len(added) < MaxAdds
    /\ encodingsText' = AddFaceEncodingText(encodingsText, newDescriptor)
    /\ added' = Append(added, newDescriptor)
    /\ UNCHANGED initialText

(* ------------------------------ Detector ------------------------------- *)

\* The three nets loadModels loads with loadFromDisk, one after the other.
NumNets == 3

\* Call c of detectFaces starts: it awaits loadModels, which returns at once
\* when modelsLoaded is set and otherwise starts the first loadFromDisk.
DetectFaces(c) ==
    /\ calls[c].stage = "idle"
    /\ calls' = [calls EXCEPT ![c].stage = IF modelsLoaded THEN "detecting"
                                           ELSE "loading"]
    /\ UNCHANGED <<modelsLoaded, modelAssets, loads>>

\* A loadFromDisk whose failure is swallowed: the call goes on to detect.
LoadFromDiskSwallowed(c) ==
    /\ calls[c].stage = "loading"
    /\ IF ~modelAssets
       THEN /\ calls' = [calls EXCEPT ![c].stage = "detecting"]
            /\ UNCHANGED <<modelsLoaded, loads>>
       ELSE IF calls[c].nets + 1 < NumNets
       THEN /\ calls' = [calls EXCEPT ![c].nets = calls[c].nets + 1]
            /\ UNCHANGED <<modelsLoaded, loads>>
       ELSE /\ calls' = [calls EXCEPT ![c].nets = NumNets, ![c].stage = "detecting"]
            /\ modelsLoaded' = TRUE
            /\ loads' = loads + 1
    /\ UNCHANGED modelAssets

\* The loadFromDisk that call c awaits in loadModels settles.  Without the
\* model files it throws, loadModels throws 'Face detection models not
\* available' and detectFaces rejects; after the third one loadModels sets
\* modelsLoaded and returns.
LoadFromDisk(c) ==
    /\ calls[c].stage = "loading"
    /\ IF ~modelAssets
       THEN /\ calls' = [calls EXCEPT ![c].stage = "rejected"]
            /\ UNCHANGED <<modelsLoaded, loads>>
       ELSE IF calls[c].nets + 1 < NumNets
       THEN /\ calls' = [calls EXCEPT ![c].nets = calls[c].nets + 1]
            /\ UNCHANGED <<modelsLoaded, loads>>
       ELSE /\ calls' = [calls EXCEPT ![c].nets = NumNets, ![c].stage = "detecting"]
            /\ modelsLoaded' = TRUE
            /\ loads' = loads + 1
    /\ UNCHANGED modelAssets

\* The detection of call c settles: it resolves with the faces found, or
\* rejects because the image cannot be read or decoded.
DetectSettled(c, ok, faces) ==
    /\ calls[c].stage = "detecting"
    /\ calls' = [calls EXCEPT ![c].stage = IF ok THEN "resolved" ELSE "rejected",
                              ![c].faces = IF ok THEN faces ELSE 0]
    /\ UNCHANGED <<modelsLoaded, modelAssets, loads>>

\* main, for the detect and match commands: after a resolved call it prints
\* the result with success: true; after a rejected one it prints 'Error:' and
\* the message and exits with status 1.
MainReports(c) ==
    /\ calls[c].stage \in {"resolved", "rejected"}
    /\ calls' = [calls EXCEPT ![c].stage = IF calls[c].stage = "resolved"
                                           THEN "success" ELSE "exit 1"]
    /\ UNCHANGED <<modelsLoaded, modelAssets, loads>>

(* ---------------------------- Photo manager ---------------------------- *)

\* A toggle that leaves the flag as it is until the fetch settles.
ToggleFavoriteDeferred(photoId) ==
    IF photoId \in DOMAIN favorite
    THEN /\ favoriteCalls' = Append(favoriteCalls,
                                    [photoId |-> photoId,
                                     originalState |-> favorite[photoId],
                                     method |-> IF ~favorite[photoId] THEN "PUT"
                                                ELSE "DELETE"])
         /\ favoriteOp' = [op |-> "toggleFavorite", photoId |-> photoId,
                           status |-> "none"]
         /\ UNCHANGED favorite
    ELSE /\ favoriteOp' = [op |-> "toggleFavorite", photoId |-> photoId,
                           status |-> "none"]
         /\ UNCHANGED <<favorite, favoriteCalls>>

\* toggleFavorite(photoId), up to its await: for a photo of the list it
\* remembers photo.favorite as originalState, flips the flag and sends PUT or
\* DELETE; for any other id it does nothing.
ToggleFavorite(photoId) ==
    IF photoId \in DOMAIN favorite
    THEN /\ favorite' = [favorite EXCEPT ![photoId] = ~favorite[photoId]]
         /\ favoriteCalls' = Append(favoriteCalls,
                                    [photoId |-> photoId,
                                     originalState |-> favorite[photoId],
                                     method |-> IF ~favorite[photoId] THEN "PUT"
                                                ELSE "DELETE"])
         /\ favoriteOp' = [op |-> "toggleFavorite", photoId |-> photoId,
                           status |-> "none"]
    ELSE /\ favoriteOp' = [op |-> "toggleFavorite", photoId |-> photoId,
                           status |-> "none"]
         /\ UNCHANGED <<favorite, favoriteCalls>>

\* A settlement that never reverts.
FavoriteSettledKeeps(i, status) ==
    /\ i \in DOMAIN favoriteCalls
    /\ UNCHANGED favorite
    /\ favoriteCalls' = RemoveAt(favoriteCalls, i)
    /\ favoriteOp' = [op |-> "settled", photoId |-> favoriteCalls[i].photoId,
                      status |-> status]

\* The fetch of call i settles and toggleFavorite resumes: response.ok keeps
\* the flag; an error status or a rejected fetch sets photo.favorite back to
\* originalState.
FavoriteSettled(i, status) ==
    /\ i \in DOMAIN favoriteCalls
    /\ favorite' = IF status = "ok" THEN favorite
                   ELSE [favorite EXCEPT ![favoriteCalls[i].photoId] =
                                             favoriteCalls[i].originalState]
    /\ favoriteCalls' = RemoveAt(favoriteCalls, i)
    /\ favoriteOp' = [op |-> "settled", photoId |-> favoriteCalls[i].photoId,
                      status |-> status]

(* ------------------------------ Keyboard ------------------------------- *)

\* The fields of the viewer, the store and the network.
viewerVars ==
    <<viewVars, taggingMode, currentFaceTags, drawVars, clickStartTime, storeVars,
      net, saveCalls>>

\* event.key: the keys handleKeyboard has a case for (the upper-case letters
\* share the case of the lower-case ones), and one it has none for.
Keys == {"ArrowRight", "ArrowLeft", "f", "F", "t", "T", "Escape", "q", "Q", "x"}

\* FullScreenViewer.toggleFavorite(): with a current photo it calls the photo
\* manager's toggleFavorite for it.
ViewerToggleFavorite ==
    /\ IF CurrentPhoto # <<>>
       THEN ToggleFavorite(CurrentPhoto[1].id)
       ELSE UNCHANGED favoriteVars
    /\ UNCHANGED viewerVars

\* A handler whose Escape closes the viewer whatever the tagging mode.
HandleKeyboardEscapeCloses(key) ==
    IF ~fullScreenMode
    THEN UNCHANGED <<viewerVars, favoriteVars>>
    ELSE CASE key = "ArrowRight" -> NextPhoto /\ UNCHANGED favoriteVars
           [] key = "ArrowLeft" -> PreviousPhoto /\ UNCHANGED favoriteVars
           [] key \in {"f", "F"} -> ViewerToggleFavorite
           [] key \in {"t", "T"} -> ToggleTaggingMode /\ UNCHANGED favoriteVars
           [] key \in {"Escape", "q", "Q"} -> CloseFullScreen /\ UNCHANGED favoriteVars
           [] OTHER -> UNCHANGED <<viewerVars, favoriteVars>>

\* handleKeyboard(event)
HandleKeyboard(key) ==
    IF ~fullScreenMode
    THEN UNCHANGED <<viewerVars, favoriteVars>>
    ELSE CASE key = "ArrowRight" -> NextPhoto /\ UNCHANGED favoriteVars
           [] key = "ArrowLeft" -> PreviousPhoto /\ UNCHANGED favoriteVars
           [] key \in {"f", "F"} -> ViewerToggleFavorite
           [] key \in {"t", "T"} -> ToggleTaggingMode /\ UNCHANGED favoriteVars
           [] key = "Escape" ->
                 /\ IF taggingMode THEN ToggleTaggingMode ELSE CloseFullScreen
                 /\ UNCHANGED favoriteVars
           [] key \in {"q", "Q"} -> CloseFullScreen /\ UNCHANGED favoriteVars
           [] OTHER -> UNCHANGED <<viewerVars, favoriteVars>>

(* --------------------------- specifications ---------------------------- *)

\* Pointer events on the image.
ImageEvents(points) ==
    {e \in PointEvents(points) : e.target = "image" /\ e.img}

\* What lastOp records of a step of the gesture specification: the operation,
\* its event, and the session state and anchor it found.
Op(name, ev) ==
    [op |-> name, ev |-> ev, from |-> SessionState, anchor |-> originalStartPos]

\* The lifecycle specification: every viewer operation, the store and the
\* network, with pointer events at NetPoints.
Next ==
    \/ \E photoId \in 1..NumPhotos :
          OpenFullScreen(photoId) /\ Len(net') <= MaxInFlight /\ UNCHANGED <<lastOp, serviceVars>>
    \/ CloseFullScreen /\ UNCHANGED <<lastOp, serviceVars>>
    \/ NextPhoto /\ Len(net') <= MaxInFlight /\ UNCHANGED <<lastOp, serviceVars>>
    \/ PreviousPhoto /\ Len(net') <= MaxInFlight /\ UNCHANGED <<lastOp, serviceVars>>
    \/ ToggleTaggingMode /\ UNCHANGED <<lastOp, serviceVars>>
    \/ SaveFaceTags /\ UNCHANGED <<lastOp, serviceVars>>
    \/ \E ev \in ImageEvents(NetPoints) :
          /\ StartDrawingTag(ev)
          /\ Len(net') <= MaxInFlight
          /\ Len(saveCalls') <= MaxCreates
          /\ UNCHANGED <<lastOp, serviceVars>>
    \/ \E ev \in ImageEvents(NetPoints) : UpdateDrawingTag(ev) /\ UNCHANGED <<lastOp, serviceVars>>
    \/ \E ev \in ImageEvents(NetPoints) :
          /\ FinishDrawingTag(ev)
          /\ Len(net') <= MaxInFlight
          /\ Len(saveCalls') <= MaxCreates
          /\ UNCHANGED <<lastOp, serviceVars>>
    \/ \E i \in 1..MaxInFlight, status \in Statuses :
          ServerHandle(i, status) /\ UNCHANGED <<lastOp, serviceVars>>
    \/ \E i \in 1..MaxInFlight : Deliver(i) /\ UNCHANGED <<lastOp, serviceVars>>

Spec == Init /\ [][Next]_vars

\* The gesture specification: the Draw Controller alone.  The viewer shows
\* photo 1 with its tags loaded, pointer events arrive at DrawPoints, on the
\* image or on chrome, and the create requests it sends stay in net.
InitDraw ==
    /\ fullScreenMode = TRUE
    /\ currentPhotoIndex = 0
    /\ taggingMode = FALSE
    /\ currentFaceTags = InitialTags
    /\ isDrawingTag = FALSE
    /\ drawStartPos = <<>>
    /\ originalStartPos = <<>>
    /\ isDragging = FALSE
    /\ clickStartTime = 0
    /\ dbTags = InitialTags
    /\ nextTagId = Len(InitialTags) + 1
    /\ net = <<>>
    /\ saveCalls = <<>>
    /\ awaitingSecondClick = FALSE
    /\ anchorPhoto = <<>>
    /\ lastOp = [op |-> "loadSettled", ev |-> NoEvent, from |-> "Idle",
                 anchor |-> <<>>]
    /\ ServiceIdle

\* Pointer events arrive until MaxDrawCreates boxes have been committed.
NextDraw ==
    \/ ToggleTaggingMode /\ UNCHANGED serviceVars /\ lastOp' = Op("toggleTaggingMode", NoEvent)
    \/ SaveFaceTags /\ UNCHANGED serviceVars /\ lastOp' = Op("saveFaceTags", NoEvent)
    \/ \E ev \in PointEvents(DrawPoints) :
          /\ Len(saveCalls) < MaxDrawCreates
          /\ StartDrawingTag(ev)
          /\ UNCHANGED serviceVars /\ lastOp' = Op("startDrawingTag", ev)
    \/ \E ev \in PointEvents(DrawPoints) :
          /\ Len(saveCalls) < MaxDrawCreates
          /\ UpdateDrawingTag(ev)
          /\ UNCHANGED serviceVars /\ lastOp' = Op("updateDrawingTag", ev)
    \/ \E ev \in PointEvents(DrawPoints) :
          /\ Len(saveCalls) < MaxDrawCreates
          /\ FinishDrawingTag(ev)
          /\ UNCHANGED serviceVars /\ lastOp' = Op("finishDrawingTag", ev)

SpecDraw == InitDraw /\ [][NextDraw]_vars

\* The navigation specification: gestures on the image at NetPoints together
\* with the photo changes, every step recorded in lastOp.  It starts where the
\* gesture specification starts, and the requests it sends stay in net.
NextNav ==
    \/ \E photoId \in 1..NumPhotos :
          /\ OpenFullScreen(photoId)
          /\ Len(net') <= MaxInFlight
          /\ UNCHANGED serviceVars /\ lastOp' = Op("openFullScreen", NoEvent)
    \/ CloseFullScreen /\ UNCHANGED serviceVars /\ lastOp' = Op("closeFullScreen", NoEvent)
    \/ NextPhoto /\ Len(net') <= MaxInFlight /\ UNCHANGED serviceVars /\ lastOp' = Op("nextPhoto", NoEvent)
    \/ PreviousPhoto /\ Len(net') <= MaxInFlight
          /\ UNCHANGED serviceVars /\ lastOp' = Op("previousPhoto", NoEvent)
    \/ ToggleTaggingMode /\ UNCHANGED serviceVars /\ lastOp' = Op("toggleTaggingMode", NoEvent)
    \/ \E ev \in ImageEvents(NetPoints) :
          /\ StartDrawingTag(ev)
          /\ Len(net') <= MaxInFlight
          /\ Len(saveCalls') <= MaxCreates
          /\ UNCHANGED serviceVars /\ lastOp' = Op("startDrawingTag", ev)
    \/ \E ev \in ImageEvents(NetPoints) :
          UpdateDrawingTag(ev) /\ UNCHANGED serviceVars /\ lastOp' = Op("updateDrawingTag", ev)
    \/ \E ev \in ImageEvents(NetPoints) :
          /\ FinishDrawingTag(ev)
          /\ Len(net') <= MaxInFlight
          /\ Len(saveCalls') <= MaxCreates
          /\ UNCHANGED serviceVars /\ lastOp' = Op("finishDrawingTag", ev)

SpecNav == InitDraw /\ [][NextNav]_vars

\* The editing specification: removal and assignment of the tags of the
\* working list, together with tagging mode, the click that anchors a session,
\* the photo changes, the store and the network, every step recorded in
\* lastOp.  It starts where the gesture specification starts.
NextEdit ==
    \/ \E tagId \in TagIds :
          /\ RemoveTag(tagId)
          /\ Len(net') <= MaxInFlight
          /\ UNCHANGED serviceVars /\ lastOp' = Op("removeTag", NoEvent)
    \/ \E tagId \in TagIds, p \in 1..MaxEditPeople :
          /\ AssignPersonToTag(tagId, People[p].id, People[p].name)
          /\ Len(net') <= MaxInFlight
          /\ UNCHANGED serviceVars /\ lastOp' = Op("assignPersonToTag", NoEvent)
    \/ NextPhoto /\ Len(net') <= MaxInFlight /\ UNCHANGED serviceVars /\ lastOp' = Op("nextPhoto", NoEvent)
    \/ PreviousPhoto /\ Len(net') <= MaxInFlight
          /\ UNCHANGED serviceVars /\ lastOp' = Op("previousPhoto", NoEvent)
    \/ ToggleTaggingMode /\ UNCHANGED serviceVars /\ lastOp' = Op("toggleTaggingMode", NoEvent)
    \/ \E ev \in ImageEvents(NetPoints) :
          /\ ~isDrawingTag
          /\ StartDrawingTag(ev)
          /\ UNCHANGED serviceVars /\ lastOp' = Op("startDrawingTag", ev)
    \/ \E i \in 1..MaxInFlight, status \in Statuses :
          ServerHandle(i, status) /\ UNCHANGED serviceVars /\ lastOp' = Op("serverHandle", NoEvent)
    \/ \E i \in 1..MaxInFlight :
          /\ Deliver(i)
          /\ UNCHANGED serviceVars /\ lastOp' = Op("deliver " \o net[i].kind \o " " \o net[i].status, NoEvent)

SpecEdit == InitDraw /\ [][NextEdit]_vars

\* Rosters of at most MaxRoster entries.
Rosters ==
    UNION {[1..n -> [personId : RosterPersonIds, descriptor : Descriptors]] :
              n \in 0..MaxRoster}

\* The Matcher specification: one call of findBestMatch, for every candidate
\* and roster whose distances are whole numbers of hundredths.
InitMatch ==
    /\ ViewerInit
    /\ EncodingsIdle
    /\ DetectorIdle
    /\ FavoritesIdle
    /\ faceDescriptor \in Descriptors
    /\ knownDescriptors \in Rosters
    /\ \A k \in DOMAIN knownDescriptors :
          ExactDistance(faceDescriptor, knownDescriptors[k].descriptor)
    /\ bestMatch = NoMatch
    /\ matchIndex = 0
    /\ matchDone = FALSE
    /\ matchOutput = <<>>

NextMatch ==
    \/ FindBestMatchEmpty /\ UNCHANGED <<viewVars, taggingMode, currentFaceTags,
                                         drawVars, clickStartTime, storeVars, net,
                                         saveCalls, lastOp, encodingVars, detectVars,
                                         favoriteVars>>
    \/ FindBestMatchIteration /\ UNCHANGED <<viewVars, taggingMode, currentFaceTags,
                                             drawVars, clickStartTime, storeVars, net,
                                             saveCalls, lastOp, encodingVars, detectVars,
                                         favoriteVars>>
    \/ FindBestMatchReturn /\ UNCHANGED <<viewVars, taggingMode, currentFaceTags,
                                          drawVars, clickStartTime, storeVars, net,
                                          saveCalls, lastOp, encodingVars, detectVars,
                                         favoriteVars>>

SpecMatch == InitMatch /\ [][NextMatch]_vars

\* The descriptor store specification: addFaceEncoding is called up to
\* MaxAdds times, starting from each of InitialTexts.
InitEncodings ==
    /\ ViewerInit
    /\ MatcherIdle
    /\ DetectorIdle
    /\ FavoritesIdle
    /\ encodingsText \in InitialTexts
    /\ initialText = encodingsText
    /\ added = <<>>

NextEncodings ==
    \E d \in NewDescriptors(Len(added) + 1) :
        /\ AddFaceEncoding(d)
        /\ UNCHANGED <<viewVars, taggingMode, currentFaceTags, drawVars,
                       clickStartTime, storeVars, net, saveCalls, lastOp, matchVars,
                       detectVars, favoriteVars>>

SpecEncodings == InitEncodings /\ [][NextEncodings]_vars

\* The create endpoint specification: an API client posts up to MaxPosts
\* tags with coordinates of CreateBodies, the store handles each request, and
\* the client reads the response.
NextCreate ==
    \/ \E p \in 1..NumPhotos, box \in CreateBodies :
          /\ PostFaceTag(FilteredPhotos[p], box)
          /\ Len(net') <= MaxInFlight
          /\ nextTagId + Len(net') <= Len(InitialTags) + 1 + MaxPosts
          /\ UNCHANGED <<lastOp, serviceVars>>
    \/ \E i \in 1..MaxInFlight, status \in Statuses :
          ServerHandle(i, status) /\ UNCHANGED <<lastOp, serviceVars>>
    \/ \E i \in 1..MaxInFlight : ResponseRead(i) /\ UNCHANGED <<lastOp, serviceVars>>

SpecCreate == Init /\ [][NextCreate]_vars

\* The photo manager specification: calls of toggleFavorite for the photos
\* of the list and for one id that is not in it, at most MaxInFlight of them
\* awaiting their fetch, settling in any order.
InitFavorite ==
    /\ ViewerInit
    /\ MatcherIdle
    /\ EncodingsIdle
    /\ DetectorIdle
    /\ favorite \in [1..NumPhotos -> BOOLEAN]
    /\ favoriteCalls = <<>>
    /\ favoriteOp = [op |-> "loadPhotos", photoId |-> 0, status |-> "none"]

NextFavorite ==
    /\ \/ \E photoId \in 1..(NumPhotos + 1) :
             ToggleFavorite(photoId) /\ Len(favoriteCalls') <= MaxInFlight
       \/ \E i \in 1..MaxInFlight, status \in Statuses : FavoriteSettled(i, status)
    /\ UNCHANGED <<viewVars, taggingMode, currentFaceTags, drawVars, clickStartTime,
                   storeVars, net, saveCalls, lastOp, matchVars, encodingVars,
                   detectVars>>

SpecFavorite == InitFavorite /\ [][NextFavorite]_vars

\* The keyboard specification: the viewer driven by its keys, with photos
\* opened from the grid and gestures on the image at NetPoints; at most
\* MaxKeyFavorites favorite requests of the f key await their fetch, and the
\* requests of the viewer stay in net.  lastOp records the key of a key press as its operation.
NextKeys ==
    \/ \E photoId \in 1..NumPhotos :
          /\ OpenFullScreen(photoId)
          /\ Len(net') <= MaxInFlight
          /\ UNCHANGED serviceVars /\ lastOp' = Op("openFullScreen", NoEvent)
    \/ \E key \in Keys :
          /\ HandleKeyboard(key)
          /\ Len(net') <= MaxInFlight
          /\ Len(favoriteCalls') <= MaxKeyFavorites
          /\ UNCHANGED <<matchVars, encodingVars, detectVars>>
          /\ lastOp' = Op(key, NoEvent)
    \/ \E i \in 1..MaxKeyFavorites, status \in Statuses :
          /\ FavoriteSettled(i, status)
          /\ UNCHANGED <<viewerVars, matchVars, encodingVars, detectVars>>
          /\ lastOp' = Op("favoriteSettled", NoEvent)
    \/ \E ev \in ImageEvents(NetPoints) :
          /\ StartDrawingTag(ev)
          /\ Len(net') <= MaxInFlight
          /\ Len(saveCalls') <= MaxCreates
          /\ UNCHANGED serviceVars /\ lastOp' = Op("startDrawingTag", ev)
    \/ \E ev \in ImageEvents(NetPoints) :
          UpdateDrawingTag(ev) /\ UNCHANGED serviceVars /\ lastOp' = Op("updateDrawingTag", ev)
    \/ \E ev \in ImageEvents(NetPoints) :
          /\ FinishDrawingTag(ev)
          /\ Len(net') <= MaxInFlight
          /\ Len(saveCalls') <= MaxCreates
          /\ UNCHANGED serviceVars /\ lastOp' = Op("finishDrawingTag", ev)

SpecKeys == InitDraw /\ [][NextKeys]_vars

\* Where the single-photo specification releases the pointer.
ReleasePoints == {<<10, 10>>}

\* What the store answers a request with: a success or an error status.
StoreOutcomes == {"ok", "error"}

\* The single-photo specification: the viewer stays on photo 1, whose load
\* has completed, while MaxCreates boxes are committed by two clicks at
\* NetPoints, and tags are removed and assigned to the people of the table; the store answers each request with a success or
\* a failure, and the responses are delivered in any order.
NextSettle ==
    \/ Len(saveCalls) < MaxCreates /\ ToggleTaggingMode /\ UNCHANGED <<lastOp, serviceVars>>
    \/ \E ev \in ImageEvents(NetPoints) :
          /\ Len(saveCalls) < MaxCreates
          /\ StartDrawingTag(ev)
          /\ Len(net') <= MaxInFlight
          /\ UNCHANGED <<lastOp, serviceVars>>
    \/ \E ev \in ImageEvents(ReleasePoints) :
          /\ Len(saveCalls) < MaxCreates
          /\ FinishDrawingTag(ev)
          /\ Len(net') <= MaxInFlight
          /\ UNCHANGED <<lastOp, serviceVars>>
    \/ \E tagId \in TagIds :
          RemoveTag(tagId) /\ Len(net') <= MaxInFlight /\ UNCHANGED <<lastOp, serviceVars>>
    \/ \E tagId \in TagIds, p \in DOMAIN People :
          /\ AssignPersonToTag(tagId, People[p].id, People[p].name)
          /\ Len(net') <= MaxInFlight
          /\ UNCHANGED <<lastOp, serviceVars>>
    \/ \E i \in 1..MaxInFlight, status \in StoreOutcomes :
          ServerHandle(i, status) /\ UNCHANGED <<lastOp, serviceVars>>
    \/ \E i \in 1..MaxInFlight : Deliver(i) /\ UNCHANGED <<lastOp, serviceVars>>

SpecSettle == InitDraw /\ [][NextSettle]_vars

\* The detector specification: NumCalls calls of detectFaces on one
\* instance, which may overlap, with the model files present or missing.
InitDetect ==
    /\ ViewerInit
    /\ MatcherIdle
    /\ EncodingsIdle
    /\ FavoritesIdle
    /\ modelsLoaded = FALSE
    /\ modelAssets \in BOOLEAN
    /\ calls = [c \in 1..NumCalls |-> [stage |-> "idle", nets |-> 0, faces |-> 0]]
    /\ loads = 0

NextDetect ==
    \E c \in 1..NumCalls :
        /\ \/ DetectFaces(c)
           \/ LoadFromDisk(c)
           \/ \E ok \in BOOLEAN, faces \in 0..MaxFaces : DetectSettled(c, ok, faces)
           \/ MainReports(c)
        /\ UNCHANGED <<viewVars, taggingMode, currentFaceTags, drawVars,
                       clickStartTime, storeVars, net, saveCalls, lastOp, matchVars,
                       encodingVars, favoriteVars>>

SpecDetect == InitDetect /\ [][NextDetect]_vars

(* ------------------------------ claims --------------------------------- *)

Range(s) == {s[i] : i \in DOMAIN s}

\* Fetch i is a response of the given kind that the viewer handles in this step.
Handles(i, kind) ==
    /\ i \in DOMAIN net
    /\ net[i].kind = kind
    /\ net[i].stage = "response"
    /\ Deliver(i)

\* This step calls saveFaceTagToDatabase: a box is committed.
Commits == saveCalls' # saveCalls

\* C1: tag creation is never optimistic.  Every tag of the working list is a
\* row the store has created; the step that commits a box leaves the working
\* list as it is; and the step that handles a create which failed (error
\* status or network error) leaves the working list as it is.  A commit without
\* a current photo sends no request at all.
C1_AddAfterConfirm ==
    /\ [](\A k \in DOMAIN currentFaceTags :
             currentFaceTags[k].id \in 1..(nextTagId - 1))
    /\ [][/\ Commits => currentFaceTags' = currentFaceTags
          /\ (Commits /\ CurrentPhoto = <<>>) => net' = net
          /\ \A i \in DOMAIN net :
                (Handles(i, "create") /\ net[i].status # "ok")
                   => currentFaceTags' = currentFaceTags]_vars

\* A create has failed and its response has been handled: the store holds no
\* new row, nothing is in flight, and the working list is what was loaded.
C1_Witness ==
    /\ fullScreenMode
    /\ Len(saveCalls) = 1
    /\ net = <<>>
    /\ nextTagId = Len(InitialTags) + 1
    /\ currentPhotoIndex = 0
    /\ currentFaceTags = InitialTags

\* C2: tags never leak across photos.  Stated for the states in which every
\* asynchronous result has arrived: every tag of the working list belongs to
\* the displayed photo.
C2_NoLeak ==
    (fullScreenMode /\ net = <<>>)
       => \A k \in DOMAIN currentFaceTags :
             currentFaceTags[k].photo = CurrentPhoto[1].name

\* C3: a create result that arrives when the photo the box was drawn on is no
\* longer displayed is discarded: the working list is left as it is.
C3_StaleCreateDiscarded ==
    [][\A i \in DOMAIN net :
          (/\ Handles(i, "create")
           /\ (CurrentPhoto = <<>> \/ CurrentPhoto[1].name # net[i].photo))
             => currentFaceTags' = currentFaceTags]_vars

\* C4: within one photo, a load issued before a tag was created does not
\* overwrite that tag.  A tag of the displayed photo that the working list and
\* the store hold, and that a successful load response for that photo lacks,
\* was created after the store answered the load, so that load was issued
\* before the create was confirmed and added: applying the response keeps it.
C4_LoadKeepsCreatedTag ==
    [][\A i \in DOMAIN net :
          (/\ Handles(i, "load")
           /\ net[i].status = "ok"
           /\ CurrentPhoto # <<>>
           /\ CurrentPhoto[1].name = net[i].photo)
             => \A t \in Range(currentFaceTags) :
                   (/\ t.photo = net[i].photo
                    /\ t \in Range(dbTags)
                    /\ t \notin Range(net[i].tags))
                      => t \in Range(currentFaceTags')]_vars

\* C5: a load response for a photo that is no longer displayed is discarded:
\* the working list is left as it is.
C5_StaleLoadDiscarded ==
    [][\A i \in DOMAIN net :
          (/\ Handles(i, "load")
           /\ (CurrentPhoto = <<>> \/ CurrentPhoto[1].name # net[i].photo))
             => currentFaceTags' = currentFaceTags]_vars

(* ----------------------- claims on the gestures ------------------------ *)

\* The point of the event the step handled, in percentage coordinates.
OpPoint == ConvertEventToCoordinates(lastOp'.ev)[1]

\* The step is a release (mouseup) that found a running session.
Release ==
    lastOp'.op = "finishDrawingTag" /\ lastOp'.ev.img /\ ~NoSession

\* The step is a click (mousedown on the image, tagging mode on) that found a
\* running session: the second click.
SecondClick ==
    /\ lastOp'.op = "startDrawingTag"
    /\ lastOp'.ev.img
    /\ lastOp'.ev.target = "image"
    /\ taggingMode
    /\ ~NoSession

\* Distances of the step's point from the anchor.
Dx == Abs(OpPoint.x - originalStartPos[1].x)

Dy == Abs(OpPoint.y - originalStartPos[1].y)

\* The rectangle spanned by the anchor and the step's point.
SpannedBox ==
    [x |-> IF OpPoint.x < originalStartPos[1].x THEN OpPoint.x
           ELSE originalStartPos[1].x,
     y |-> IF OpPoint.y < originalStartPos[1].y THEN OpPoint.y
           ELSE originalStartPos[1].y,
     width |-> Dx, height |-> Dy]

\* The step commits exactly the spanned rectangle.
CommitsSpannedBox == saveCalls' = Append(saveCalls, SpannedBox)

\* The release is at the position the preceding mousemove reported.
Tracked ==
    /\ lastOp.op = "updateDrawingTag"
    /\ lastOp.ev.img
    /\ ConvertEventToCoordinates(lastOp.ev) = ConvertEventToCoordinates(lastOp'.ev)

\* The Draw Controller is Idle after the step.
IdleAfter ==
    /\ ~isDrawingTag'
    /\ drawStartPos' = <<>>
    /\ originalStartPos' = <<>>
    /\ ~isDragging'

\* C6: a release closer than 2 points to the anchor in both axes never commits;
\* a release of a drag (the pointer was followed to the release point, 2 points
\* or more from the anchor in some axis; or the session has seen movement
\* beyond the threshold) commits iff the spanned rectangle has width > 2 and
\* height > 2, and what it commits is that rectangle.
C6_DragCommit ==
    [][Release =>
          /\ (Dx < 2 /\ Dy < 2) => ~Commits
          /\ ((Tracked /\ (Dx >= 2 \/ Dy >= 2)) \/ isDragging)
                => (Commits <=> (Dx > 2 /\ Dy > 2))
          /\ Commits => CommitsSpannedBox]_vars

\* A drag has been released and has committed its box.
C6_Witness ==
    /\ lastOp.op = "finishDrawingTag"
    /\ lastOp.from = "Dragging"
    /\ Len(saveCalls) = 1
    /\ saveCalls[1].width > 2
    /\ ~isDrawingTag
    /\ Len(net) = 1

\* C7: the second click commits the rectangle spanned by the anchor and the
\* clicked point whenever its width and height exceed 1 point, whether or not
\* the pointer has moved and whatever the drag threshold; with or without a
\* commit it ends the session.
C7_SecondClickCommits ==
    [][SecondClick =>
          /\ Commits <=> (Dx > 1 /\ Dy > 1)
          /\ Commits => CommitsSpannedBox
          /\ IdleAfter]_vars

\* A second click has committed a box of 2 points, with no movement seen.
C7_Witness ==
    /\ lastOp.op = "startDrawingTag"
    /\ lastOp.from = "AwaitingSecondClick"
    /\ Len(saveCalls) = 1
    /\ saveCalls[1].width = 2
    /\ saveCalls[1].height = 2
    /\ ~isDrawingTag

\* The second click is at (11,11) and the anchor at (10,10).
ScenarioD ==
    /\ SecondClick
    /\ originalStartPos[1] = [x |-> 10, y |-> 10]
    /\ OpPoint = [x |-> 11, y |-> 11]

\* C8 as stated: clicks at (10,10) and (11,11) commit {10,10,1,1}.
C8_ScenarioD_Original ==
    [][ScenarioD =>
          saveCalls' = Append(saveCalls,
                              [x |-> 10, y |-> 10, width |-> 1, height |-> 1])]_vars

\* C8 as amended: clicks at (10,10) and (11,11) commit nothing, since a width
\* and height of 1 do not exceed the 1-point minimum, and end the session.
C8_ScenarioD ==
    [][ScenarioD => (~Commits /\ net' = net /\ IdleAfter)]_vars

\* The clicks at (10,10) and (11,11) have happened.
C8_Witness ==
    /\ lastOp.op = "startDrawingTag"
    /\ lastOp.ev = [clientX |-> 11, clientY |-> 11, target |-> "image", img |-> TRUE]
    /\ lastOp.from \in {"Anchored", "AwaitingSecondClick"}
    /\ lastOp.anchor = <<[x |-> 10, y |-> 10]>>
    /\ taggingMode
    /\ ~isDrawingTag
    /\ saveCalls = <<>>

\* C9: a release without movement commits nothing and leaves the session and
\* its anchor as they are; and once the session waits for the second click,
\* only a click commits its box, spanned from that same anchor.
C9_ReleaseWithoutMovement ==
    [][/\ (Release /\ ~isDragging)
             => (~Commits /\ UNCHANGED <<isDrawingTag, originalStartPos>>)
       /\ (awaitingSecondClick /\ Commits)
             => (SecondClick /\ CommitsSpannedBox)]_vars

\* C10: leaving tagging mode by the toggle resets the Draw Controller to Idle
\* in whatever state the session is, and commits nothing.
C10_ToggleOffResets ==
    [][(lastOp'.op = "toggleTaggingMode" /\ taggingMode)
          => (~taggingMode' /\ IdleAfter /\ ~Commits /\ net' = net)]_vars

\* Tagging mode has been toggled off while a drag was under way.
C10_Witness ==
    /\ lastOp.op = "toggleTaggingMode"
    /\ lastOp.from = "Dragging"
    /\ ~taggingMode
    /\ ~isDrawingTag
    /\ saveCalls = <<>>

(* ----------------------- claims on photo changes ----------------------- *)

\* The step makes a photo current that was not current before it.
PhotoChange == CurrentPhoto' # CurrentPhoto /\ CurrentPhoto' # <<>>

\* C11: a step of open, next or previous that changes the photo leaves the
\* Draw Controller Idle and tagging mode off, in the very step that sends the
\* load request for the new photo and before any of its tags are in the list;
\* hence a running session was always anchored on the photo that is current,
\* and a create request is for the photo its session was anchored on.
C11_PhotoChangeResets ==
    /\ []((isDrawingTag /\ CurrentPhoto # <<>>) => anchorPhoto = CurrentPhoto)
    /\ [][/\ PhotoChange =>
                /\ lastOp'.op \in {"openFullScreen", "nextPhoto", "previousPhoto"}
                /\ ~taggingMode'
                /\ IdleAfter
                /\ net' = Append(net, LoadRequest(CurrentPhoto'[1]))
                /\ currentFaceTags' = currentFaceTags
          /\ (Commits /\ net' # net) =>
                /\ anchorPhoto # <<>>
                /\ net' = Append(net, CreateRequest(anchorPhoto[1], saveCalls'[Len(saveCalls')]))]_vars

\* nextPhoto has run while a drag anchored on photo 1 was under way.
C11_Witness ==
    /\ lastOp.op = "nextPhoto"
    /\ lastOp.from = "Dragging"
    /\ lastOp.anchor # <<>>
    /\ currentPhotoIndex = 1
    /\ ~isDrawingTag
    /\ ~taggingMode
    /\ originalStartPos = <<>>

(* --------------------- claims on removal and assignment ---------------- *)

\* The ids of the tags in the working list.
ListIds == {currentFaceTags[k].id : k \in DOMAIN currentFaceTags}

\* The working list with the tags of the id filtered out.
Without(tagId) == SelectSeq(currentFaceTags, LAMBDA t : t.id # tagId)

\* C12: the call of assignPersonToTag leaves the working list as it is; the
\* response of a failed update (error status or network error) leaves it as it
\* is; and the list changes on an update response only when the status is ok,
\* and then in one tag with the id of the request, which gets the person id and
\* name of the request.
C12_AssignAfterSuccess ==
    [][/\ lastOp'.op = "assignPersonToTag" => currentFaceTags' = currentFaceTags
       /\ \A i \in DOMAIN net :
             Handles(i, "update") =>
                /\ net[i].status # "ok" => currentFaceTags' = currentFaceTags
                /\ currentFaceTags' # currentFaceTags =>
                      /\ net[i].status = "ok"
                      /\ \E k \in DOMAIN currentFaceTags :
                            /\ currentFaceTags[k].id = net[i].tagId
                            /\ currentFaceTags' =
                                  [currentFaceTags EXCEPT ![k] =
                                      [@ EXCEPT !.personId = net[i].personId,
                                                !.personName = net[i].personName]]]_vars

\* An update failed in the network and its response has been handled: list
\* and store are what they were.
C12_Witness ==
    /\ lastOp.op = "deliver update network"
    /\ net = <<>>
    /\ currentFaceTags = InitialTags
    /\ dbTags = InitialTags

C14_UnknownIdIsNoOp ==
    [][lastOp'.op \in {"removeTag", "assignPersonToTag"} =>
          /\ UNCHANGED <<currentFaceTags, taggingMode, isDrawingTag, drawStartPos,
                         originalStartPos, isDragging, dbTags>>
          /\ \/ net' = net
             \/ /\ Len(net') = Len(net) + 1
                /\ net' = Append(net, net'[Len(net')])
                /\ net'[Len(net')].tagId \in ListIds]_vars

\* removeTag has been called for an id the list does not hold, while a session
\* was anchored: nothing was sent and the session is still anchored.
C14_Witness ==
    /\ lastOp.op = "removeTag"
    /\ lastOp.from = "Anchored"
    /\ net = <<>>
    /\ currentFaceTags = InitialTags
    /\ taggingMode
    /\ isDrawingTag
    /\ originalStartPos = lastOp.anchor

(* -------------------- claims on geometry and chrome -------------------- *)

\* The step handled a pointer event (mousedown, mousemove or mouseup).
PointerStep ==
    lastOp'.op \in {"startDrawingTag", "updateDrawingTag", "finishDrawingTag"}

\* C15: a pointer event whose target is a button or the face-tag controls
\* leaves anchor, preview rectangle and movement flag as they are, in every
\* session state, and commits nothing.
C15_ChromeIgnored ==
    [][(PointerStep /\ lastOp'.ev.target = "button") =>
          /\ UNCHANGED <<isDrawingTag, originalStartPos, drawStartPos, isDragging>>
          /\ ~Commits]_vars

\* The points pointer events of the gesture specification convert to.
GesturePoints ==
    {ConvertEventToCoordinates(e)[1] : e \in ImageEvents(DrawPoints)}

\* C16: preview and committed rectangle are the min/max normalisation of
\* anchor and point: the same rectangle whichever of two points is the anchor,
\* of non-negative width and height; (10,10)->(40,40) and (40,40)->(10,10) both
\* give {10,10,30,30}; a mousemove of a drag sets the preview to the rectangle
\* spanned by anchor and point, and a commit sends that rectangle.
C16_Normalised ==
    /\ [](\A a \in GesturePoints, b \in GesturePoints :
             /\ TagBox(a, b.x, b.y) = TagBox(b, a.x, a.y)
             /\ PreviewBox(a, b.x, b.y) = TagBox(a, b.x, b.y)
             /\ TagBox(a, b.x, b.y).width >= 0
             /\ TagBox(a, b.x, b.y).height >= 0)
    /\ [](/\ TagBox([x |-> 10, y |-> 10], 40, 40)
                = [x |-> 10, y |-> 10, width |-> 30, height |-> 30]
          /\ TagBox([x |-> 40, y |-> 40], 10, 10)
                = [x |-> 10, y |-> 10, width |-> 30, height |-> 30])
    /\ [](/\ \A k \in DOMAIN saveCalls : saveCalls[k].width >= 0 /\ saveCalls[k].height >= 0
          /\ drawStartPos # <<>> => (drawStartPos[1].width >= 0 /\ drawStartPos[1].height >= 0))
    /\ [][/\ (lastOp'.op = "updateDrawingTag" /\ lastOp'.ev.img /\ ~NoSession /\ isDragging')
                => drawStartPos' = <<SpannedBox>>
          /\ (PointerStep /\ Commits) => CommitsSpannedBox]_vars

\* A drag from (40,40) back to (10,10) has committed {10,10,30,30}.
C16_Witness ==
    /\ lastOp.op = "finishDrawingTag"
    /\ lastOp.from = "Dragging"
    /\ lastOp.anchor = <<[x |-> 40, y |-> 40]>>
    /\ saveCalls = <<[x |-> 10, y |-> 10, width |-> 30, height |-> 30]>>

\* The box the step passes to saveFaceTagToDatabase.
CommittedBox == saveCalls'[Len(saveCalls')]

\* C17: every box passed on for persistence has width and height above the
\* minimum of its gesture (2 for a release, 1 for a second click), hence
\* strictly positive, and it is that box the create request carries; so every
\* create request in flight has width and height above 1.
C17_MinimumSize ==
    /\ [](\A k \in DOMAIN net :
             net[k].kind = "create" => (net[k].box.width > 1 /\ net[k].box.height > 1))
    /\ [][Commits =>
             /\ PointerStep
             /\ saveCalls' = Append(saveCalls, CommittedBox)
             /\ net' = Append(net, CreateRequest(CurrentPhoto[1], CommittedBox))
             /\ CommittedBox.width > 0 /\ CommittedBox.height > 0
             /\ lastOp'.op = "finishDrawingTag"
                   => (CommittedBox.width > 2 /\ CommittedBox.height > 2)
             /\ lastOp'.op = "startDrawingTag"
                   => (CommittedBox.width > 1 /\ CommittedBox.height > 1)
             /\ lastOp'.op # "updateDrawingTag"]_vars

\* A release has sent a create request for a box of 3 by 3 points, the
\* smallest a drag commits.
C17_Witness ==
    /\ lastOp.op = "finishDrawingTag"
    /\ Len(net) = 1
    /\ net[1].kind = "create"
    /\ net[1].box.width = 3
    /\ net[1].box.height = 3

\* C18: every box passed on for persistence lies within the image, in
\* percentage units: 0 <= x, 0 <= y, x + width <= 100 and y + height <= 100.
C18_WithinImage ==
    \A k \in DOMAIN saveCalls :
       /\ 0 <= saveCalls[k].x
       /\ 0 <= saveCalls[k].y
       /\ saveCalls[k].x + saveCalls[k].width <= 100
       /\ saveCalls[k].y + saveCalls[k].height <= 100

(* ------------------------- claims on the Matcher ----------------------- *)

\* The distances of the candidate to the roster entries.
RosterDistances ==
    {EuclideanDistance(faceDescriptor, knownDescriptors[k].descriptor) :
        k \in DOMAIN knownDescriptors}

\* C19: for a non-empty roster the returned distance is the minimum of the
\* distances of the candidate to the roster entries.
C19_ReturnsMinimum ==
    (matchDone /\ Len(knownDescriptors) > 0) =>
        /\ bestMatch.distance \in RosterDistances
        /\ \A d \in RosterDistances : bestMatch.distance <= d

\* C20: isMatch of the returned result is true exactly when the returned
\* distance is at most 0.45, for every roster, the empty one included.
C20_IsMatchIffWithinThreshold ==
    matchDone => (bestMatch.isMatch <=> bestMatch.distance <= 45)

\* A candidate at exactly 0.45 from the nearest roster entry has been matched.
C20_Witness ==
    /\ matchDone
    /\ Len(knownDescriptors) > 0
    /\ bestMatch.distance = 45
    /\ bestMatch.isMatch
    /\ bestMatch.personId # 0

\* C21: the tier of the reported confidence is low below 0.6, medium from 0.6
\* to below 0.8 and high from 0.8 on; shouldAutoConfirm is true exactly when
\* the tier is high, and shouldSuggest exactly when the confidence is at
\* least 0.6.
C21_TierBoundaries ==
    matchOutput # <<>> =>
        LET m == matchOutput[1] IN
        /\ m.confidence < 60 => m.confidenceLevel = "low"
        /\ (60 <= m.confidence /\ m.confidence < 80) => m.confidenceLevel = "medium"
        /\ m.confidence >= 80 => m.confidenceLevel = "high"
        /\ m.shouldAutoConfirm <=> m.confidenceLevel = "high"
        /\ m.shouldSuggest <=> m.confidence >= 60

\* A report at the boundary 0.8 exactly: the nearest entry is at 0.2.
C21_Witness ==
    /\ matchOutput # <<>>
    /\ Len(knownDescriptors) > 0
    /\ matchOutput[1].distance = 20
    /\ matchOutput[1].confidence = 80
    /\ matchOutput[1].confidenceLevel = "high"
    /\ matchOutput[1].shouldAutoConfirm

\* A report at the boundary 0.6 exactly, and one just below it.
C21_WitnessMedium ==
    /\ matchOutput # <<>>
    /\ matchOutput[1].confidence = 60
    /\ matchOutput[1].confidenceLevel = "medium"
    /\ matchOutput[1].shouldSuggest
    /\ ~matchOutput[1].shouldAutoConfirm

\* C22: the confidence of every result is max(0, 1 - distance) of the distance
\* the result carries, and lies between 0 and 1.
C22_ConfidenceOfDistance ==
    matchOutput # <<>> =>
        LET m == matchOutput[1] IN
        /\ m.confidence = (IF 100 - m.distance > 0 THEN 100 - m.distance ELSE 0)
        /\ 0 <= m.confidence
        /\ m.confidence <= 100

\* A result strictly inside the range: distance 0.41, confidence 0.59.
C22_Witness ==
    /\ matchOutput # <<>>
    /\ Len(knownDescriptors) > 0
    /\ matchOutput[1].distance = 41
    /\ matchOutput[1].confidence = 59

\* C23: for an empty roster the result is exactly confidence 0, distance 1,
\* isMatch false, with no identity.
C23_EmptyRoster ==
    (matchOutput # <<>> /\ Len(knownDescriptors) = 0) =>
        /\ bestMatch = [personId |-> 0, confidence |-> 0, distance |-> 100,
                        isMatch |-> FALSE]
        /\ matchOutput[1].personId = 0
        /\ matchOutput[1].confidence = 0
        /\ matchOutput[1].distance = 100
        /\ ~matchOutput[1].isMatch

\* A call with an empty roster has returned.
C23_Witness ==
    /\ matchDone
    /\ matchOutput # <<>>
    /\ Len(knownDescriptors) = 0
    /\ matchIndex = 0

\* The roster entries at the minimum distance, as indices.
NearestEntries ==
    {k \in DOMAIN knownDescriptors :
        \A j \in DOMAIN knownDescriptors :
            EuclideanDistance(faceDescriptor, knownDescriptors[k].descriptor)
                <= EuclideanDistance(faceDescriptor, knownDescriptors[j].descriptor)}

\* The first roster entry at the minimum distance.
FirstNearest == CHOOSE k \in NearestEntries : \A j \in NearestEntries : k <= j

\* C24: when several roster entries are at the same minimum distance, the
\* result carries the identity of the first of them in roster order.
C24_TieKeepsFirst ==
    (matchOutput # <<>> /\ Cardinality(NearestEntries) >= 2) =>
        matchOutput[1].personId = knownDescriptors[FirstNearest].personId

\* The same for ties below distance 1, where an entry replaces the initial
\* result.
C24_TieBelowOneKeepsFirst ==
    (/\ matchOutput # <<>>
     /\ Cardinality(NearestEntries) >= 2
     /\ EuclideanDistance(faceDescriptor, knownDescriptors[FirstNearest].descriptor) < 100)
        => matchOutput[1].personId = knownDescriptors[FirstNearest].personId

\* Two entries of different identities tie below distance 1.
C24_TieBelowOneReached ==
    /\ matchOutput # <<>>
    /\ Cardinality(NearestEntries) >= 2
    /\ knownDescriptors[1].personId # knownDescriptors[2].personId
    /\ EuclideanDistance(faceDescriptor, knownDescriptors[1].descriptor) < 100

(* --------------------- claims on the descriptor store ------------------ *)

\* The text is JSON of an array of arrays of numbers.
ValidText(text) ==
    /\ text.kind = "json"
    /\ text.value.t = "arr"
    /\ \A k \in DOMAIN text.value.items :
          /\ text.value.items[k].t = "arr"
          /\ \A j \in DOMAIN text.value.items[k].items :
                text.value.items[k].items[j].t = "num"

\* The list a valid text spells out, number by number.
ListOf(text) ==
    [k \in DOMAIN text.value.items |->
        [j \in DOMAIN text.value.items[k].items |-> text.value.items[k].items[j].n]]

\* The text is a stored list: a valid text as JSON.stringify prints it, all of
\* whose numbers a Float32Array holds exactly.
StoredListText(text) ==
    /\ ValidText(text)
    /\ text.canonical
    /\ \A k \in DOMAIN ListOf(text) :
          \A j \in DOMAIN ListOf(text)[k] : ListOf(text)[k][j] % 2 = 0

\* The last n elements of s.
LastN(s, n) == [i \in 1..n |-> s[Len(s) - n + i]]

\* This step is a call of addFaceEncoding; NewDescriptor is its descriptor.
AddStep == added' # added

NewDescriptor == added'[Len(added')]

\* The store was empty before the first addition.
StartedEmpty == initialText \in {AbsentText, EmptyText, StoredTextOf(0)}

\* C25: addFaceEncoding on a stored list L and a descriptor d stores the last
\* min(|L| + 1, 10) elements of L followed by d, in order; a stored result never
\* has more than 10 descriptors; and after 12 additions to an empty store the
\* list is exactly additions 3 to 12.
C25_KeepsMostRecentTen ==
    /\ [][(AddStep /\ StoredListText(encodingsText)) =>
            /\ ValidText(encodingsText')
            /\ ListOf(encodingsText') =
                  LastN(Append(ListOf(encodingsText), NewDescriptor),
                        IF Len(ListOf(encodingsText)) + 1 < 10
                        THEN Len(ListOf(encodingsText)) + 1 ELSE 10)]_vars
    /\ [](Len(added) >= 1 =>
            (ValidText(encodingsText) /\ Len(ListOf(encodingsText)) <= 10))
    /\ []((StartedEmpty /\ Len(added) = 12) =>
            ListOf(encodingsText) = [i \in 1..10 |-> added[i + 2]])

\* Twelve descriptors have been added to a store that had no text: ten are
\* stored, the oldest of them the third addition.
C25_Witness ==
    /\ initialText = AbsentText
    /\ Len(added) = 12
    /\ Len(ListOf(encodingsText)) = 10
    /\ ListOf(encodingsText)[1] = added[3]
    /\ ListOf(encodingsText)[10] = added[12]

\* A stored list of ten descriptors has taken one more.
C25_WitnessOverflow ==
    /\ initialText = StoredTextOf(10)
    /\ Len(added) = 1
    /\ Len(ListOf(encodingsText)) = 10
    /\ ListOf(encodingsText)[10] = added[1]
    /\ ListOf(encodingsText)[1] = ListOf(initialText)[2]

\* C26 as stated: for every text that is an array of arrays of numbers,
\* serializing the parsed list gives the text back.
C26_RoundTrip_Original ==
    ValidText(encodingsText) =>
        SerializeFaceEncodings(ParseFaceEncodings(encodingsText)) = encodingsText

\* C26: for every stored list (an array of arrays of numbers that a
\* Float32Array holds exactly, spelled as JSON.stringify prints it), parsing
\* gives the same descriptors and components in the same order, and
\* serializing the parsed list gives the text back.
C26_RoundTrip ==
    StoredListText(encodingsText) =>
        /\ ParseFaceEncodings(encodingsText) = ListOf(encodingsText)
        /\ SerializeFaceEncodings(ParseFaceEncodings(encodingsText)) = encodingsText

\* A stored list of several descriptors, one of them with two components,
\* written by addFaceEncoding.
C26_Witness ==
    /\ Len(added) >= 2
    /\ StoredListText(encodingsText)
    /\ Len(ListOf(encodingsText)) >= 3
    /\ ListOf(encodingsText)[1] # ListOf(encodingsText)[2]
    /\ \E k \in DOMAIN ListOf(encodingsText) : Len(ListOf(encodingsText)[k]) = 2

\* C27: when the existing text is not an array of arrays of numbers (absent,
\* empty, not JSON, or JSON of another shape), addFaceEncoding stores a list
\* of exactly the one new descriptor.
C27_MalformedTreatedAsEmpty ==
    [][(AddStep /\ ~ValidText(encodingsText)) =>
          /\ ValidText(encodingsText')
          /\ ListOf(encodingsText') = <<NewDescriptor>>]_vars

\* The same for the texts the code does not parse or JSON.parse rejects.
C27_UnparsedTreatedAsEmpty ==
    [][(AddStep /\ encodingsText.kind # "json") =>
          /\ ValidText(encodingsText')
          /\ ListOf(encodingsText') = <<NewDescriptor>>]_vars

(* ------------------------ claims on the detector ----------------------- *)

\* C28: when the model files are unavailable, no call of detectFaces detects
\* or completes successfully, with zero faces or otherwise; a call that has
\* settled is rejected, and main reports it with exit status 1.
C28_MissingModelsFail ==
    ~modelAssets =>
        \A c \in 1..NumCalls :
            /\ calls[c].stage \in {"idle", "loading", "rejected", "exit 1"}
            /\ calls[c].stage \notin {"detecting", "resolved", "success"}

\* Without model files, both calls were made and have ended with exit
\* status 1.
C28_Witness ==
    /\ ~modelAssets
    /\ \A c \in 1..NumCalls : calls[c].stage = "exit 1"

\* C29: over the calls of detectFaces on one instance, overlapping ones
\* included, the three model files are loaded successfully at most once, and a
\* call made after modelsLoaded is set starts no load.
C29_LoadedAtMostOnce ==
    /\ [](loads <= 1)
    /\ [][\A c \in 1..NumCalls :
            (modelsLoaded /\ calls[c].stage = "idle") =>
                calls'[c].stage # "loading"]_vars

\* The part of C29 on calls made after the flag is set.
C29_NoLoadOnceLoaded ==
    [][\A c \in 1..NumCalls :
          (modelsLoaded /\ calls[c].stage = "idle") =>
              calls'[c].stage # "loading"]_vars

\* A call made after the flag is set has gone straight to detection.
C29_NoLoadReached ==
    /\ modelsLoaded
    /\ loads = 1
    /\ \E c \in 1..NumCalls : calls[c].stage = "detecting" /\ calls[c].nets = 0

(* -------------------- claims on the create endpoint -------------------- *)

\* x, y, width and height are all within 0..100.
InRange(b) ==
    /\ 0 <= b.x /\ b.x <= 100
    /\ 0 <= b.y /\ b.y <= 100
    /\ 0 <= b.width /\ b.width <= 100
    /\ 0 <= b.height /\ b.height <= 100

\* C30: a create request with x, y, width or height outside 0..100 is answered
\* with an error, and no tag with such coordinates is stored.
C30_OutOfRangeRejected ==
    /\ \A k \in DOMAIN dbTags : InRange(dbTags[k])
    /\ \A i \in DOMAIN net :
          (net[i].kind = "create" /\ net[i].stage = "response" /\ ~InRange(net[i].box))
              => net[i].status # "ok"

\* A create request with coordinates within 0..100 has been stored.
C30_InRangeStored ==
    /\ Len(dbTags) > Len(InitialTags)
    /\ \A k \in DOMAIN dbTags : InRange(dbTags[k])

(* ---------------------- claims on matcher decisions -------------------- *)

\* C40: in every report, isMatch true comes with an identity, shouldAutoConfirm
\* implies shouldSuggest, and shouldSuggest implies isMatch.
C40_DecisionsConsistent ==
    matchOutput # <<>> =>
        LET m == matchOutput[1] IN
        /\ m.isMatch => m.personId # 0
        /\ m.shouldAutoConfirm => m.shouldSuggest
        /\ m.shouldSuggest => m.isMatch

\* A report that suggests without auto-confirming: the nearest entry, of
\* identity 2, is at 0.4; and the roster also holds an entry that is no match.
C40_Witness ==
    /\ matchOutput # <<>>
    /\ Len(knownDescriptors) = 2
    /\ matchOutput[1].personId = 2
    /\ matchOutput[1].distance = 40
    /\ matchOutput[1].isMatch
    /\ matchOutput[1].shouldSuggest
    /\ ~matchOutput[1].shouldAutoConfirm

(* ----------------------- claims on the favorites ----------------------- *)

\* This step is a call of toggleFavorite; this step settles call i with the
\* status.
ToggleStep ==
    /\ favoriteOp'.op = "toggleFavorite"
    /\ (favoriteOp' # favoriteOp \/ favoriteCalls' # favoriteCalls)

SettleStep(i, status) ==
    /\ i \in DOMAIN favoriteCalls
    /\ favoriteCalls' = RemoveAt(favoriteCalls, i)
    /\ favoriteOp'.op = "settled"
    /\ favoriteOp'.status = status

\* The flags of the photos other than photoId stay as they are.
OthersKeep(photoId) ==
    \A p \in DOMAIN favorite : p # photoId => favorite'[p] = favorite[p]

\* C31: toggleFavorite flips the flag of a known photo at once and sends one
\* request; a successful response leaves the flags as they are; an error
\* status or a network error sets the flag to the value it had when the call
\* started; a call for an unknown id sends nothing and changes no flag.
C31_OptimisticWithRollback ==
    /\ [][\A photoId \in 1..(NumPhotos + 1) :
            (ToggleStep /\ favoriteOp'.photoId = photoId) =>
                IF photoId \in 1..NumPhotos
                THEN /\ favorite'[photoId] = ~favorite[photoId]
                     /\ OthersKeep(photoId)
                     /\ Len(favoriteCalls') = Len(favoriteCalls) + 1
                     /\ favoriteCalls'[Len(favoriteCalls')].photoId = photoId
                     /\ favoriteCalls'[Len(favoriteCalls')].originalState
                           = favorite[photoId]
                ELSE favorite' = favorite /\ favoriteCalls' = favoriteCalls]_vars
    /\ [][\A i \in 1..MaxInFlight :
            /\ SettleStep(i, "ok") => favorite' = favorite
            /\ \A status \in {"error", "network"} :
                  SettleStep(i, status) =>
                      /\ favorite'[favoriteCalls[i].photoId]
                            = favoriteCalls[i].originalState
                      /\ OthersKeep(favoriteCalls[i].photoId)]_vars

\* A lone call for photo 1 has failed and the flag is back at its value.
C31_Witness ==
    /\ favoriteOp = [op |-> "settled", photoId |-> 1, status |-> "error"]
    /\ favoriteCalls = <<>>
    /\ favorite[1] = FALSE

(* ---------------------- claims on completed gestures ------------------- *)

\* The step completes a gesture: a release of a session that has seen
\* movement, or a second click.
CompletesGesture == (Release /\ isDragging) \/ SecondClick

\* C32: a release with movement and a second click leave no session, no
\* anchor, no preview rectangle and no movement flag, with or without a
\* commit; a commit only sends the create request, which is still unanswered
\* when the step ends.
C32_GestureEndsIdle ==
    [][CompletesGesture =>
          /\ IdleAfter
          /\ (Commits /\ CurrentPhoto # <<>>) =>
                net' = Append(net, CreateRequest(CurrentPhoto[1],
                                                 saveCalls'[Len(saveCalls')]))]_vars

\* A new gesture has been anchored while the create request of the previous
\* one is still unanswered.
C32_Witness ==
    /\ lastOp.op = "startDrawingTag"
    /\ lastOp.from = "Idle"
    /\ isDrawingTag
    /\ originalStartPos # <<>>
    /\ Len(saveCalls) = 1
    /\ \E i \in DOMAIN net : net[i].kind = "create" /\ net[i].stage = "request"

\* A drag has been released on a box that is too small, and was abandoned.
C32_AbandonReached ==
    /\ lastOp.op = "finishDrawingTag"
    /\ lastOp.from = "Dragging"
    /\ Len(saveCalls) = 0
    /\ ~isDrawingTag
    /\ taggingMode

(* ------------------------- claims on navigation ------------------------ *)

\* The step is nextPhoto on the last photo or previousPhoto on the first.
AtTheEnd ==
    \/ lastOp'.op = "nextPhoto" /\ currentPhotoIndex = NumPhotos - 1
    \/ lastOp'.op = "previousPhoto" /\ currentPhotoIndex = 0

\* C39: the current index is always an index of the photo list, and nextPhoto
\* on the last photo and previousPhoto on the first change neither the photo,
\* the working list, tagging mode nor the session, and send no request.
C39_NavigationInBounds ==
    /\ [](0 <= currentPhotoIndex /\ currentPhotoIndex <= NumPhotos - 1)
    /\ [][AtTheEnd =>
            /\ currentPhotoIndex' = currentPhotoIndex
            /\ fullScreenMode' = fullScreenMode
            /\ currentFaceTags' = currentFaceTags
            /\ taggingMode' = taggingMode
            /\ isDrawingTag' = isDrawingTag
            /\ drawStartPos' = drawStartPos
            /\ originalStartPos' = originalStartPos
            /\ isDragging' = isDragging
            /\ net' = net]_vars

\* nextPhoto has run on the last photo while a session was anchored, and the
\* session and tagging mode are as they were.
C39_Witness ==
    /\ lastOp.op = "nextPhoto"
    /\ lastOp.from = "Anchored"
    /\ fullScreenMode
    /\ currentPhotoIndex = NumPhotos - 1
    /\ taggingMode
    /\ isDrawingTag
    /\ originalStartPos = lastOp.anchor

(* ----------------------- claims on the closed viewer ------------------- *)

\* C37: whenever the viewer is not in full-screen mode, no session is active
\* and tagging mode is off.
C37_ClosedHasNoSession ==
    ~fullScreenMode => (~isDrawingTag /\ originalStartPos = <<>> /\ ~taggingMode)

\* The state C37 excludes, as left by closing: the viewer has just been closed
\* and the session anchored before the close is still there, tagging mode on.
C37_ClosedWithSession ==
    /\ lastOp.op = "closeFullScreen"
    /\ lastOp.from = "Anchored"
    /\ ~fullScreenMode
    /\ taggingMode
    /\ isDrawingTag
    /\ originalStartPos = lastOp.anchor

\* The part of C37 on reopening: a step that opens the closed viewer leaves no
\* session and tagging mode off.
C37_ReopenStartsIdle ==
    [][(~fullScreenMode /\ fullScreenMode') => (IdleAfter /\ ~taggingMode')]_vars

\* The viewer was closed with a session anchored and has been opened again.
C37_ReopenReached ==
    /\ lastOp.op = "openFullScreen"
    /\ lastOp.from = "Anchored"
    /\ fullScreenMode
    /\ ~isDrawingTag

(* -------------------- claims on the session's structure ---------------- *)

\* C36: a session is active exactly when an anchor and a preview rectangle
\* exist, the movement flag is set only while a session is active, and a session
\* is active only while tagging mode is on.
C36_SessionConsistent ==
    /\ isDrawingTag <=> (originalStartPos # <<>> /\ drawStartPos # <<>>)
    /\ isDrawingTag <=> (originalStartPos # <<>> \/ drawStartPos # <<>>)
    /\ isDragging => isDrawingTag
    /\ isDrawingTag => taggingMode

\* A session with movement: the anchor, a preview rectangle that has left the
\* anchor, and the movement flag, with tagging mode on.
C36_Witness ==
    /\ lastOp.op = "updateDrawingTag"
    /\ taggingMode
    /\ isDrawingTag
    /\ isDragging
    /\ originalStartPos # <<>>
    /\ drawStartPos # <<>>
    /\ drawStartPos[1].width > 0

(* ------------------------- claims on the keyboard ---------------------- *)

\* A step of handleKeyboard for the key.
KeyStep(key) == lastOp'.op = key

C38_ClosedReached ==
    /\ lastOp.op = "Escape"
    /\ lastOp.from = "Idle"
    /\ ~fullScreenMode
    /\ ~taggingMode

(* ------------------------- claims on a failed load --------------------- *)

\* A step in which a load request settles as failed: with an error status, or
\* with a network error.
LoadFails == lastOp'.op \in {"deliver load error", "deliver load network"}

\* C35: when the load of the displayed photo's tags fails, the working list
\* becomes empty, whatever it held, and the viewer stays open on the photo with
\* its tagging mode and session as they were.
C35_FailedLoadEmpties ==
    [][LoadFails =>
         /\ currentFaceTags' = <<>>
         /\ UNCHANGED <<fullScreenMode, currentPhotoIndex, taggingMode, drawVars>>]_vars

\* The load of photo 2, reached from photo 1, has failed: the list that held
\* the tags of photo 1 is empty and the viewer is open on photo 2.
C35_Witness ==
    /\ LET op == lastOp.op IN op = "deliver load error" \/ op = "deliver load network"
    /\ currentFaceTags = <<>>
    /\ fullScreenMode
    /\ currentPhotoIndex = 1
    /\ \A i \in DOMAIN net : net[i].kind # "load"
    /\ dbTags = InitialTags

(* ----------------------- claims on concurrent requests ----------------- *)

\* C34: all tag ids in the working list are distinct.
C34_IdsDistinct ==
    \A i, j \in DOMAIN currentFaceTags :
        currentFaceTags[i].id = currentFaceTags[j].id => i = j

\* The tags of a list with the identity each one carries.
Identities(tags) == {<<tags[k].id, tags[k].personId>> : k \in DOMAIN tags}

\* C33: on one displayed photo whose load has completed, once no request is
\* outstanding the working list holds exactly the tags the store holds for the
\* photo, each with the identity it has in the store.
C33_SettlesToStore ==
    net = <<>> =>
        /\ Identities(currentFaceTags) = Identities(TagsForPhoto(FilteredPhotos[1].name))
        /\ Len(currentFaceTags) = Len(TagsForPhoto(FilteredPhotos[1].name))

\* A box was committed, its tag was added and given an identity, and one of
\* the stored tags was removed, all of it settled: list and store agree.
C33_SettledReached ==
    /\ net = <<>>
    /\ saveCalls # <<>>
    /\ \E k \in DOMAIN currentFaceTags :
          currentFaceTags[k].id = 3 /\ currentFaceTags[k].personId = 2
    /\ Len(currentFaceTags) = 2
    /\ Identities(currentFaceTags) = Identities(dbTags)

====
